---- MODULE Spec2Model ----
(***************************************************************************)
(* fi-parliament-tools: the postprocessing pipeline that labels Kaldi      *)
(* segments with a speaker and a language by matching the session          *)
(* transcript to the edit-segmented CTM.                                   *)
(*                                                                         *)
(* Conventions.  A DataFrame is a sequence of rows (records); the row with *)
(* pandas label/position r (0-based, RangeIndex) is element r+1 of the     *)
(* sequence.  All indices handled by the operators below are the Python    *)
(* 0-based ones.  Times are whole numbers (seg_start in segment-length     *)
(* units, start/end in centiseconds).  A raised exception is a record      *)
(* [ok |-> FALSE, kind |-> <exception class>, err |-> <message>].          *)
(***************************************************************************)
EXTENDS Integers, Sequences, FiniteSets, TLC

VARIABLES
    inputs,      \* PostProcessingPipeline.inputs: the sessions to process
    pos,         \* run(): number of sessions of inputs handed to postprocess_session
    files,       \* the output files on disk, per session and suffix
    stats,       \* PostProcessingPipeline.stats: session -> statistics row
    log,         \* the log: log.info of run() and log.exception of postprocess_session
    errors,      \* Pipeline.errors: diagnostic messages of the matcher
    df,          \* match_ctm_to_transcript: the CTM being labeled (rows and attrs)
    transcript,  \* match_ctm_to_transcript: the statements of the transcript
    mpc,         \* match_ctm_to_transcript: position (statement, queue of pieces, starts found)
    pc,          \* run(): "run" in the loop, "done" after it, "raised" if left by an exception
    locals,      \* postprocess_session: the tables of the last call when it ended
    args,        \* arguments of the function under study
    result       \* its return value (or raised error)

vars == <<inputs, pos, files, stats, log, errors, df, transcript, mpc, pc, locals, args, result>>

----------------------------------------------------------------------------
(* Generic helpers                                                         *)

Min(x, y) == IF x < y THEN x ELSE y

Max(x, y) == IF x > y THEN x ELSE y

Range(s) == {s[i] : i \in 1..Len(s)}

\* Python s[lo:hi] on a sequence, 0-based, hi exclusive, clipped to the sequence.
Slice(s, lo, hi) == SubSeq(s, Max(lo, 0) + 1, Min(hi, Len(s)))

\* All sequences over S of length lo..hi.
SeqsOf(S, lo, hi) == UNION {[1..n -> S] : n \in lo..hi}

\* Python "needle in hay" for strings given as sequences of characters.
Contains(hay, needle) ==
    \E i \in 1..(Len(hay) - Len(needle) + 1) :
        SubSeq(hay, i, i + Len(needle) - 1) = needle

\* Python s[lo:hi] with its negative indices (counted from the end).
PySlice(s, lo, hi) ==
    LET l == IF lo < 0 THEN Max(lo + Len(s), 0) ELSE lo
        h == IF hi < 0 THEN Max(hi + Len(s), 0) ELSE hi
    IN  Slice(s, l, h)

RECURSIVE Flatten(_)
Flatten(ss) == IF ss = <<>> THEN <<>> ELSE Head(ss) \o Flatten(Tail(ss))

\* A raised exception: kind is the Python exception class.
Raise(kind, msg) == [ok |-> FALSE, kind |-> kind, err |-> msg]

----------------------------------------------------------------------------
(* Language labels as character strings                                    *)

Langs == {"", "fi", "sv", "fi+sv", "fi.p", "sv.p", "fi+sv.p"}

Chars(l) ==
    CASE l = ""        -> <<>>
      [] l = "fi"      -> <<"f", "i">>
      [] l = "sv"      -> <<"s", "v">>
      [] l = "fi+sv"   -> <<"f", "i", "+", "s", "v">>
      [] l = "fi.p"    -> <<"f", "i", ".", "p">>
      [] l = "sv.p"    -> <<"s", "v", ".", "p">>
      [] l = "fi+sv.p" -> <<"f", "i", "+", "s", "v", ".", "p">>

FI == <<"f", "i">>

SV == <<"s", "v">>

----------------------------------------------------------------------------
(* difflib.SequenceMatcher(None, a, b) without junk (isjunk is None, and   *)
(* the autojunk heuristic needs len(b) >= 200).  A block is                *)
(* [a |-> i, b |-> j, size |-> k]; la is len(a) including any padding of   *)
(* fill values after the elements given in a (a fill value matches         *)
(* nothing).                                                               *)

\* In what follows CHOOSE r \in {f(x) : x \in {e}} : TRUE is f(e), with e
\* evaluated once and bound to x.
Match(i, j, k) == [a |-> i, b |-> j, size |-> k]

\* Blocks a[i:i+k] == b[j:j+k], k >= 1, inside a[alo:ahi] x b[blo:bhi].
CommonBlocks(a, b, alo, ahi, blo, bhi) ==
    {m \in {Match(i, j, k) : i \in alo..(ahi - 1), j \in blo..(bhi - 1),
                             k \in 1..Min(ahi - alo, bhi - blo)} :
        /\ m.a + m.size <= ahi
        /\ m.b + m.size <= bhi
        /\ \A t \in 1..m.size : a[m.a + t] = b[m.b + t]}

\* SequenceMatcher.find_longest_match: the longest block; of those the one
\* starting earliest in a; of those the one starting earliest in b.
find_longest_match(a, b, alo, ahi, blo, bhi) ==
    LET longest(C) ==
            IF C = {} THEN Match(alo, blo, 0)
            ELSE CHOOSE m \in C : \A d \in C :
                     \/ m.size > d.size
                     \/ m.size = d.size /\ m.a < d.a
                     \/ m.size = d.size /\ m.a = d.a /\ m.b <= d.b
    IN  CHOOSE r \in {longest(C) : C \in {CommonBlocks(a, b, alo, ahi, blo, bhi)}} : TRUE

RECURSIVE matching_blocks_rec(_, _, _, _, _, _)
\* The queue loop of get_matching_blocks, sorted: left part, block, right part.
matching_blocks_rec(a, b, alo, ahi, blo, bhi) ==
    LET around(m) ==
            IF m.size = 0 THEN <<>>
            ELSE matching_blocks_rec(a, b, alo, m.a, blo, m.b)
                 \o <<m>>
                 \o matching_blocks_rec(a, b, m.a + m.size, ahi, m.b + m.size, bhi)
    IN  CHOOSE r \in {around(m) : m \in {find_longest_match(a, b, alo, ahi, blo, bhi)}} : TRUE

RECURSIVE collapse_adjacent(_, _)
\* get_matching_blocks: adjacent equal blocks are merged into one.
collapse_adjacent(cur, blocks) ==
    IF blocks = <<>> THEN (IF cur.size > 0 THEN <<cur>> ELSE <<>>)
    ELSE LET nxt == Head(blocks)
         IN  IF cur.a + cur.size = nxt.a /\ cur.b + cur.size = nxt.b
             THEN CHOOSE r \in {collapse_adjacent(m, rest) :
                                   m \in {Match(cur.a, cur.b, cur.size + nxt.size)},
                                   rest \in {Tail(blocks)}} : TRUE
             ELSE (IF cur.size > 0 THEN <<cur>> ELSE <<>>)
                  \o collapse_adjacent(nxt, Tail(blocks))

\* SequenceMatcher.get_matching_blocks: the blocks in order, then the
\* sentinel (len(a), len(b), 0).
get_matching_blocks(a, la, b) ==
    (CHOOSE r \in {collapse_adjacent(Match(0, 0, 0), q) :
                      q \in {matching_blocks_rec(a, b, 0, Len(a), 0, Len(b))}} : TRUE)
    \o <<Match(la, Len(b), 0)>>

RECURSIVE opcodes_rec(_, _, _)
opcodes_rec(i, j, blocks) ==
    IF blocks = <<>> THEN <<>>
    ELSE LET m   == Head(blocks)
             tag == IF i < m.a /\ j < m.b THEN "replace"
                    ELSE IF i < m.a THEN "delete"
                    ELSE IF j < m.b THEN "insert"
                    ELSE ""
         IN  (IF tag /= "" THEN <<<<tag, i, m.a, j, m.b>>>> ELSE <<>>)
             \o (IF m.size > 0
                 THEN <<<<"equal", m.a, m.a + m.size, m.b, m.b + m.size>>>>
                 ELSE <<>>)
             \o opcodes_rec(m.a + m.size, m.b + m.size, Tail(blocks))

\* SequenceMatcher.get_opcodes: 5-tuples (tag, i1, i2, j1, j2).
get_opcodes(a, la, b) ==
    CHOOSE r \in {opcodes_rec(0, 0, blocks) : blocks \in {get_matching_blocks(a, la, b)}} : TRUE

----------------------------------------------------------------------------
(* transcriptMatcher/labeler.py: the statement matcher                     *)

EPS == "<eps>"

UNK == "<UNK>"

\* find_statement defaults (labeler.py:154-156) and find_end_index default.
MATCH_LIMIT == 30

WINDOW_SIZE == 10000

WINDOW_STEP == 7500

MIN_BLOCK == 5

ADDED_RANGE == 100

RECURSIVE masked_index(_, _)
\* df[(df.transcript != "<eps>") & (df.transcript != "<UNK>")].index: the row
\* labels of the first n rows that are neither <eps> nor <UNK>.
masked_index(rows, n) ==
    IF n = 0 THEN <<>>
    ELSE LET rest == masked_index(rows, n - 1)
         IN  IF rows[n].transcript /= EPS /\ rows[n].transcript /= UNK
             THEN Append(rest, n - 1) ELSE rest

RECURSIVE windows_rec(_, _, _, _)
\* The while loop of sliding_window.  The deque (maxlen = size) is items
\* followed by fill values; rest is what the iterator has left.  A pass
\* appends step elements (those left in rest, then fill values), which
\* pushes the step oldest elements out.
windows_rec(items, rest, size, step) ==
    <<[items |-> items, pad |-> size - Len(items)]>>
    \o (IF rest = <<>> THEN <<>>
        ELSE LET taken  == Min(step, Len(rest))
                 reals  == items \o SubSeq(rest, 1, taken)
             IN  CHOOSE r \in {windows_rec(q, left, size, step) :
                                   q \in {Slice(reals, step, Len(reals))},
                                   left \in {Slice(rest, taken, Len(rest))}} : TRUE)

\* sliding_window(iterable, size, step, fillvalue=None): the windows in order,
\* each [items, pad]: the window is items followed by pad fill values.
sliding_window(iterable, size, step) ==
    IF size < 0 \/ step < 1 THEN Raise("ValueError", "")
    ELSE LET q == Slice(iterable, 0, size)
         IN  [ok |-> TRUE,
              windows |-> IF q = <<>> THEN <<>>
                          ELSE windows_rec(q, Slice(iterable, size, Len(iterable)),
                                           size, step)]

\* find_end_index if a matching block of one word were enough for an end.
find_end_index_at_single_words(tokens, labels, text, added_range) ==
    LET search_end == Min(Len(text) + added_range, Len(tokens) - 1)
        a          == IF search_end < 0 THEN Slice(tokens, 0, Len(tokens) + search_end)
                      ELSE Slice(tokens, 0, search_end)
        end_of(ops, matches) ==
            LET big  == {k \in 1..Len(matches) : matches[k].size > 0}
                last == matches[CHOOSE k \in big : \A j \in big : j <= k]
            IN  IF ops = <<>> THEN Raise("IndexError", "list index out of range")
                ELSE IF ops[Len(ops)][1] = "equal"
                THEN [ok |-> TRUE, end |-> labels[ops[Len(ops)][3] + 1]]
                ELSE IF big /= {}
                THEN [ok |-> TRUE, end |-> labels[last.a + last.size + 1]]
                ELSE Raise("ValueError", "Statement end index not found.")
    IN  end_of(get_opcodes(a, Len(a), text), get_matching_blocks(a, Len(a), text))

\* find_end_index(masked, text, added_range): tokens and labels are the
\* transcript column and the index of the masked rows from the start on.
find_end_index(tokens, labels, text, added_range) ==
    LET search_end == Min(Len(text) + added_range, Len(tokens) - 1)
        a          == IF search_end < 0 THEN Slice(tokens, 0, Len(tokens) + search_end)
                      ELSE Slice(tokens, 0, search_end)
        end_of(ops, matches) ==
            LET big  == {k \in 1..Len(matches) : matches[k].size > 1}
                last == matches[CHOOSE k \in big : \A j \in big : j <= k]
            IN  IF ops = <<>> THEN Raise("IndexError", "list index out of range")
                ELSE IF ops[Len(ops)][1] = "equal"
                THEN [ok |-> TRUE, end |-> labels[ops[Len(ops)][3] + 1]]
                ELSE IF big /= {}
                THEN [ok |-> TRUE, end |-> labels[last.a + last.size + 1]]
                ELSE Raise("ValueError", "Statement end index not found.")
    IN  CHOOSE r \in {end_of(ops, matches) : ops \in {get_opcodes(a, Len(a), text)},
                                              matches \in {get_matching_blocks(a, Len(a), text)}} :
            TRUE

RECURSIVE find_in_window_accepting_half(_, _, _, _, _, _, _, _)
\* find_in_window if a block were accepted with half of its rows cor.
find_in_window_accepting_half(medit, witems, size, text_head, lang, i, step, start) ==
    LET min_m == Min(Len(text_head), MIN_BLOCK)
        first_of(blocks) ==
            LET hits == {k \in 1..Len(blocks) : blocks[k].size >= min_m}
            IN  IF hits = {} THEN Match(0, 0, 0)
                ELSE blocks[CHOOSE k \in hits : \A j \in hits : k <= j]
        accept(match) ==
            LET start1 == start + match.a
                s      == start1 + i * step
                edits  == Slice(medit, s, s + match.size)
                cors   == Cardinality({k \in 1..Len(edits) : edits[k] = "cor"})
            IN  IF match.size <= 0 THEN -1
                ELSE IF Contains(Chars(lang), SV) \/ (cors > 0 /\ 2 * cors >= Len(edits))
                THEN s
                ELSE find_in_window_accepting_half(medit, witems, size, text_head, lang, i,
                                                   step, start1 + Len(text_head))
    IN  IF ~(start < step) THEN -1
        ELSE accept(first_of(get_matching_blocks(Slice(witems, start, Len(witems)),
                                                 Max(size - start, 0), text_head)))

RECURSIVE find_in_window(_, _, _, _, _, _, _, _)
\* The while loop of find_statement in window i: start is the offset in the
\* window, whose items (without its padding) are witems and whose length is
\* size.  Returns the accepted masked position s, or s = -1 when the
\* loop is left without a match.
find_in_window(medit, witems, size, text_head, lang, i, step, start) ==
    LET min_m == Min(Len(text_head), MIN_BLOCK)
        first_of(blocks) ==
            LET hits == {k \in 1..Len(blocks) : blocks[k].size >= min_m}
            IN  IF hits = {} THEN Match(0, 0, 0)
                ELSE blocks[CHOOSE k \in hits : \A j \in hits : k <= j]
        accept(match) ==
            LET start1 == start + match.a
                s      == start1 + i * step
                edits  == Slice(medit, s, s + match.size)
                cors   == Cardinality({k \in 1..Len(edits) : edits[k] = "cor"})
            IN  IF match.size <= 0 THEN -1
                ELSE IF Contains(Chars(lang), SV) \/ (cors > 0 /\ 2 * cors > Len(edits))
                THEN s
                ELSE find_in_window(medit, witems, size, text_head, lang, i, step,
                                    start1 + Len(text_head))
    IN  IF ~(start < step) THEN -1
        ELSE accept(first_of(get_matching_blocks(Slice(witems, start, Len(witems)),
                                                 Max(size - start, 0), text_head)))

RECURSIVE find_in_windows(_, _, _, _, _, _, _)
\* The for loop of find_statement over the windows from window i on.
find_in_windows(medit, windows, size, text_head, lang, i, step) ==
    LET or_next(s) ==
            IF s >= 0 THEN s
            ELSE find_in_windows(medit, windows, size, text_head, lang, i + 1, step)
    IN  IF i >= Len(windows) THEN -1
        ELSE or_next(find_in_window(medit, windows[i + 1].items, size, text_head,
                                    lang, i, step, 0))

\* find_statement if it returned the position of the start among the unmasked
\* rows in place of the index of the row.
find_statement_returning_positions(rows, text, lang, match_limit, size, step) ==
    LET words_matched == Min(Len(text), match_limit)
        in_masked(midx) ==
            LET mtrans == [k \in 1..Len(midx) |-> rows[midx[k] + 1].transcript]
                medit  == [k \in 1..Len(midx) |-> rows[midx[k] + 1].edit]
                ending(s, fe) ==
                    IF s >= Len(midx) THEN Raise("IndexError", "index out of bounds")
                    ELSE IF ~fe.ok THEN fe
                    ELSE [ok |-> TRUE, start |-> s, end |-> fe.end]
                from(s) ==
                    IF s < 0 THEN Raise("ValueError", "Alignment not found.")
                    ELSE ending(s, find_end_index(Slice(mtrans, s, Len(mtrans)),
                                                  Slice(midx, s, Len(midx)), text,
                                                  ADDED_RANGE))
                over(sw) ==
                    IF ~sw.ok THEN sw
                    ELSE from(find_in_windows(medit, sw.windows, size,
                                              Slice(text, 0, words_matched), lang, 0, step))
            IN  over(sliding_window(mtrans, size, step))
    IN  in_masked(masked_index(rows, Len(rows)))

\* find_statement(df, text, lang, match_limit, size, step) -> (start, end).
find_statement(rows, text, lang, match_limit, size, step) ==
    LET words_matched == Min(Len(text), match_limit)
        in_masked(midx) ==
            LET mtrans == [k \in 1..Len(midx) |-> rows[midx[k] + 1].transcript]
                medit  == [k \in 1..Len(midx) |-> rows[midx[k] + 1].edit]
                ending(s, fe) ==
                    IF s >= Len(midx) THEN Raise("IndexError", "index out of bounds")
                    ELSE IF ~fe.ok THEN fe
                    ELSE [ok |-> TRUE, start |-> midx[s + 1], end |-> fe.end]
                from(s) ==
                    IF s < 0 THEN Raise("ValueError", "Alignment not found.")
                    ELSE ending(s, find_end_index(Slice(mtrans, s, Len(mtrans)),
                                                  Slice(midx, s, Len(midx)), text,
                                                  ADDED_RANGE))
                over(sw) ==
                    IF ~sw.ok THEN sw
                    ELSE from(find_in_windows(medit, sw.windows, size,
                                              Slice(text, 0, words_matched), lang, 0, step))
            IN  over(sliding_window(mtrans, size, step))
    IN  in_masked(masked_index(rows, Len(rows)))

\* adjust_indices(df, start_idx, end_idx) -> (start, end).
adjust_indices(rows, start_idx, end_idx) ==
    LET cors  == Slice([k \in 1..Len(rows) |-> rows[k].edit = "cor"], start_idx, end_idx)
        trues == {k \in 1..Len(cors) : cors[k]}
        first_cor_idx == IF trues = {} THEN 0
                         ELSE (CHOOSE k \in trues : \A j \in trues : k <= j) - 1
        rev_argmax    == IF trues = {} THEN 0
                         ELSE Len(cors) - (CHOOSE k \in trues : \A j \in trues : j <= k)
        last_cor_idx  == IF rev_argmax > 0 THEN rev_argmax + 1 ELSE rev_argmax
    IN  IF start_idx = end_idx THEN Raise("ValueError", "Found segment is of length 0.")
        ELSE IF cors = <<>>
        THEN Raise("ValueError", "attempt to get argmax of an empty sequence")
        ELSE [ok |-> TRUE, start |-> start_idx + first_cor_idx,
              end |-> end_idx - last_cor_idx]

\* df.loc[start_idx:end_idx, (speaker, mpid, lang)] = ...: label-based, both
\* ends included.
\* write_labels if the rows without a reference word were left out.
write_labels_skipping_masked(rows, start_idx, end_idx, statement) ==
    [k \in 1..Len(rows) |->
        IF start_idx <= k - 1 /\ k - 1 <= end_idx /\ rows[k].transcript \notin {EPS, UNK}
        THEN [rows[k] EXCEPT !.speaker = <<statement.firstname, statement.lastname>>,
                             !.mpid = statement.mp_id,
                             !.lang = statement.language]
        ELSE rows[k]]

write_labels(rows, start_idx, end_idx, statement) ==
    [k \in 1..Len(rows) |->
        IF start_idx <= k - 1 /\ k - 1 <= end_idx
        THEN [rows[k] EXCEPT !.speaker = <<statement.firstname, statement.lastname>>,
                             !.mpid = statement.mp_id,
                             !.lang = statement.language]
        ELSE rows[k]]

\* assign_speaker with the boundaries tightened for every language.
assign_speaker_adjusting_swedish(rows, text, statement) ==
    LET labeled(adj) ==
            IF ~adj.ok THEN adj
            ELSE [ok |-> TRUE, rows |-> write_labels(rows, adj.start, adj.end, statement)]
        adjusted(found) ==
            IF ~found.ok THEN found
            ELSE labeled(adjust_indices(rows, found.start, found.end))
    IN  adjusted(find_statement(rows, text, statement.language,
                                MATCH_LIMIT, WINDOW_SIZE, WINDOW_STEP))

\* assign_speaker(df, text, statement) -> df: text is the list text.split().
assign_speaker(rows, text, statement) ==
    LET labeled(adj) ==
            IF ~adj.ok THEN adj
            ELSE [ok |-> TRUE, rows |-> write_labels(rows, adj.start, adj.end, statement)]
        adjusted(found) ==
            IF ~found.ok THEN found
            ELSE IF ~Contains(Chars(statement.language), SV)
            THEN labeled(adjust_indices(rows, found.start, found.end))
            ELSE labeled(found)
    IN  adjusted(find_statement(rows, text, statement.language,
                                MATCH_LIMIT, WINDOW_SIZE, WINDOW_STEP))

----------------------------------------------------------------------------
(* match_ctm_to_transcript: the loop over the statements                   *)

CH_STATEMENT == "#ch_statement"

\* The token the normalizer removes (punctuation).
PUNCT == ","

RECURSIVE apply(_)
\* preprocessor.apply(txt, REGEXPS, UNACCEPTED_CHARS, TRANSLATIONS) followed by
\* split(): the external normalizer, as far as the matcher depends on it: it
\* may leave fewer tokens than the raw text had.
apply(txt) ==
    IF txt = <<>> THEN <<>>
    ELSE IF Head(txt) = PUNCT THEN apply(Tail(txt))
    ELSE <<Head(txt)>> \o apply(Tail(txt))

\* str.partition("#ch_statement") on a text given as its list of raw tokens.
partition(txt) ==
    LET at == {k \in 1..Len(txt) : txt[k] = CH_STATEMENT}
        p  == CHOOSE k \in at : \A j \in at : k <= j
    IN  IF at = {} THEN <<txt, <<>>, <<>>>>
        ELSE <<SubSeq(txt, 1, p - 1), <<CH_STATEMENT>>, SubSeq(txt, p + 1, Len(txt))>>

RECURSIVE keep_long(_)
\* [apply(txt) for txt in texts if len(txt.strip().split(" ")) > 1]
keep_long(texts) ==
    IF texts = <<>> THEN <<>>
    ELSE (IF Len(Head(texts)) > 1 THEN <<apply(Head(texts))>> ELSE <<>>)
         \o keep_long(Tail(texts))

\* labeler.py:75-87: the normalized texts of one main statement.
statement_texts(main_statement) ==
    IF main_statement.embedded_statement.text /= <<>>
    THEN LET parts == partition(main_statement.text)
         IN  keep_long(<<parts[1], main_statement.embedded_statement.text, parts[3]>>)
    ELSE keep_long(<<main_statement.text>>)

\* labeler.py:76-80: the statements the texts are zipped with.
statement_list(main_statement) ==
    IF main_statement.embedded_statement.text /= <<>>
    THEN <<main_statement, main_statement.embedded_statement, main_statement>>
    ELSE <<main_statement>>

\* zip(texts, statements)
zip(texts, statements) ==
    [k \in 1..Min(Len(texts), Len(statements)) |-> <<texts[k], statements[k]>>]

\* for sub in transcript.subsections: for main_statement in sub.statements
main_statements(t) == Flatten(t)

\* labeler.py:72: the matcher's state at the start.  rows are the CTM's rows,
\* statements and failed are df.attrs, errs the error list, queue the pairs
\* of zip(texts, statements) not yet tried, raised an exception that left
\* the function.
match_begin(rows, errs) ==
    [rows |-> rows, statements |-> 0, failed |-> 0, errs |-> errs,
     queue |-> <<>>, raised |-> [ok |-> TRUE]]

\* match_statement if the pieces left out were counted too.
match_statement_counting_all(st, main_statement) ==
    LET queued(texts) ==
            [st EXCEPT !.statements = @ + Len(statement_list(main_statement)),
                       !.queue = zip(texts, statement_list(main_statement))]
    IN  queued(statement_texts(main_statement))

\* labeler.py:75-88: one pass of the loop over the main statements, up to the
\* inner loop.
match_statement(st, main_statement) ==
    LET queued(texts) ==
            [st EXCEPT !.statements = @ + Len(texts),
                       !.queue = zip(texts, statement_list(main_statement))]
    IN  queued(statement_texts(main_statement))

\* The inner loop without its except clause: the error of a piece leaves the
\* function.
match_piece_reraising(st, session) ==
    IF assign_speaker(st.rows, Head(st.queue)[1], Head(st.queue)[2]).ok
    THEN [st EXCEPT !.rows = assign_speaker(st.rows, Head(st.queue)[1],
                                            Head(st.queue)[2]).rows,
                    !.queue = Tail(@)]
    ELSE [st EXCEPT !.raised = assign_speaker(st.rows, Head(st.queue)[1],
                                              Head(st.queue)[2])]

\* labeler.py:89-95: one pass of the inner loop: try, and catch ValueError and
\* RuntimeError.
match_piece(st, session) ==
    LET txt   == Head(st.queue)[1]
        stmnt == Head(st.queue)[2]
        after(r) ==
            IF r.ok THEN [st EXCEPT !.rows = r.rows, !.queue = Tail(@)]
            ELSE IF r.kind \in {"ValueError", "RuntimeError"}
            THEN [st EXCEPT !.failed = @ + 1,
                            !.errs = Append(@, [stmnt |-> stmnt, session |-> session,
                                                err |-> r.err]),
                            !.queue = Tail(@)]
            ELSE [st EXCEPT !.raised = r]
    IN  after(assign_speaker(st.rows, txt, stmnt))

RECURSIVE match_pieces(_, _)
match_pieces(st, session) ==
    IF st.queue = <<>> \/ ~st.raised.ok THEN st
    ELSE match_pieces(match_piece(st, session), session)

RECURSIVE match_loop(_, _, _)
match_loop(st, todo, session) ==
    IF todo = <<>> \/ ~st.raised.ok THEN st
    ELSE match_loop(match_pieces(match_statement(st, Head(todo)), session),
                    Tail(todo), session)

\* match_ctm_to_transcript(df, transcript, recipe, errors): the final state.
match_ctm_to_transcript(rows, t, session, errs) ==
    match_loop(match_begin(rows, errs), main_statements(t), session)

----------------------------------------------------------------------------
(* speakerAligner/IO.py: loading the Kaldi files                           *)

\* split_segment_id(segment_id) -> (begin, end, number): the id is kept as
\* its three numeric fields.
split_segment_id(segment_id) == <<segment_id.begin, segment_id.end, segment_id.number>>

\* check_missing_segments if the differences were taken between consecutive
\* rows only, the first row having none.
check_missing_segments_without_fill(seg_start) ==
    IF ~(seg_start[1] = 0) THEN Raise("ValueError", "First segment is missing.")
    ELSE IF \/ ~(Cardinality({seg_start[k + 1] - seg_start[k] :
                                 k \in 1..(Len(seg_start) - 1)}) <= 2)
            \/ 0 \notin {seg_start[k + 1] - seg_start[k] : k \in 1..(Len(seg_start) - 1)}
    THEN Raise("ValueError", "There is a missing segment.")
    ELSE [ok |-> TRUE]

\* check_missing_segments(df): seg_start is the column df.seg_start.
check_missing_segments(seg_start) ==
    LET diffs == [k \in 1..Len(seg_start) |->
                     seg_start[k] - (IF k = 1 THEN 0 ELSE seg_start[k - 1])]
        unique_diffs == Range(diffs)
    IN  IF seg_start = <<>> THEN Raise("KeyError", "0")
        ELSE IF ~(seg_start[1] = 0) THEN Raise("ValueError", "First segment is missing.")
        ELSE IF ~(Cardinality(unique_diffs) <= 2) \/ 0 \notin unique_diffs
        THEN Raise("ValueError", "There is a missing segment.")
        ELSE [ok |-> TRUE]

\* KaldiCTMSegmented.get_df: the table of a .ctm_edits.segmented file, whose
\* lines are given as [session, transcript, edit, segment_info].
ctm_get_df(lines) ==
    LET rows == [k \in 1..Len(lines) |->
                    [transcript   |-> lines[k].transcript,
                     edit         |-> lines[k].edit,
                     segment_info |-> lines[k].segment_info,
                     speaker      |-> <<"unknown">>,
                     mpid         |-> 0,
                     lang         |-> "",
                     seg_start    |-> split_segment_id(lines[k].session)[1],
                     seg_end      |-> split_segment_id(lines[k].session)[2],
                     word_id      |-> split_segment_id(lines[k].session)[3]]]
        checked(df_rows, chk) == IF chk.ok THEN [ok |-> TRUE, rows |-> df_rows] ELSE chk
    IN  checked(rows, check_missing_segments([k \in 1..Len(lines) |->
                                                 split_segment_id(lines[k].session)[1]]))

\* KaldiSegments.get_df: lines are [uttid, recordid, start, end].
segments_get_df(lines) ==
    [k \in 1..Len(lines) |->
        [uttid |-> lines[k].uttid, recordid |-> lines[k].recordid,
         start |-> lines[k].start + split_segment_id(lines[k].uttid)[1],
         end   |-> lines[k].end + split_segment_id(lines[k].uttid)[1],
         new_uttid |-> <<>>]]

\* KaldiText.get_df: lines are [uttid, text].
text_get_df(lines) ==
    [k \in 1..Len(lines) |->
        [uttid |-> lines[k].uttid, text |-> lines[k].text, new_uttid |-> <<>>]]

----------------------------------------------------------------------------
(* transcriptMatcher/labeler.py: labels of the segments                    *)

RECURSIVE parse_segment_info(_, _)
\* parse_segment_info(df): one record for every marker
\* start-segment-N[start=I,end=J of the first n rows; segment_info holds the
\* markers of a row as a list.  name is the row's label.
parse_segment_info(rows, n) ==
    IF n = 0 THEN <<>>
    ELSE parse_segment_info(rows, n - 1)
         \o [m \in 1..Len(rows[n].segment_info) |->
                [name          |-> n - 1,
                 seg_num       |-> rows[n].segment_info[m].seg_num,
                 seg_start_idx |-> rows[n].segment_info[m].start,
                 seg_end_idx   |-> rows[n].segment_info[m].end,
                 word_id       |-> rows[n].word_id]]

RECURSIVE segment_slice(_, _, _)
\* main_df.<column>.iloc[start : start + length].loc[sil_mask]: the rows of the
\* segment that are neither sil nor fix, with python's slice semantics.
segment_slice(row, rows, n) ==
    LET shift  == row.seg_start_idx - row.word_id
        length == row.seg_end_idx - row.seg_start_idx
        start  == row.name + shift
        part   == PySlice(rows, start, start + length)
    IN  IF n = 0 THEN <<>>
        ELSE segment_slice(row, rows, n - 1)
             \o (IF n <= Len(part) /\ part[n].edit /= "sil" /\ part[n].edit /= "fix"
                 THEN <<part[n]>> ELSE <<>>)

\* get_segment_speaker(row, main_df, sil_mask)
get_segment_speaker(row, rows) ==
    LET speaker_of(slice) ==
            LET mpids == {slice[k].mpid : k \in 1..Len(slice)}
                zeros == Cardinality({k \in 1..Len(slice) : slice[k].mpid = 0})
                hi    == CHOOSE m \in mpids : \A o \in mpids : o <= m
            IN  IF Cardinality(mpids) = 2 /\ 0 \in mpids /\ zeros < 2
                THEN [ok |-> TRUE, mpid |-> hi]
                ELSE IF Cardinality(mpids) > 1 THEN [ok |-> TRUE, mpid |-> -1]
                ELSE IF mpids = {}
                THEN Raise("IndexError", "index 0 is out of bounds for axis 0 with size 0")
                ELSE [ok |-> TRUE, mpid |-> hi]
    IN  speaker_of(segment_slice(row, rows, Len(rows)))

RECURSIVE unique(_)
\* Series.unique(): the distinct values in order of first appearance.
unique(vals) ==
    IF vals = <<>> THEN <<>>
    ELSE LET init == unique(SubSeq(vals, 1, Len(vals) - 1))
             v    == vals[Len(vals)]
         IN  IF v \in Range(init) THEN init ELSE Append(init, v)

RECURSIVE join(_)
\* " ".join(labels) as a character string.
join(labels) ==
    IF labels = <<>> THEN <<>>
    ELSE IF Len(labels) = 1 THEN Chars(labels[1])
    ELSE Chars(Head(labels)) \o <<" ">> \o join(Tail(labels))

\* get_segment_language if it compared whole labels instead of looking for
\* "fi" and "sv" inside them.
get_segment_language_whole_labels(row, rows) ==
    IF \E k \in 1..Len(segment_slice(row, rows, Len(rows))) :
           segment_slice(row, rows, Len(rows))[k].lang = "sv"
    THEN (IF \E k \in 1..Len(segment_slice(row, rows, Len(rows))) :
                 segment_slice(row, rows, Len(rows))[k].lang = "fi"
          THEN "fi+sv" ELSE "sv")
    ELSE "fi"

\* get_segment_language(row, main_df, sil_mask)
get_segment_language(row, rows) ==
    LET lang_cols(slice) == [k \in 1..Len(slice) |-> slice[k].lang]
        language_of(langs) ==
            IF Contains(langs, FI) /\ Contains(langs, SV) THEN "fi+sv"
            ELSE IF Contains(langs, SV) THEN "sv"
            ELSE "fi"
    IN  language_of(join(unique(lang_cols(segment_slice(row, rows, Len(rows))))))

\* form_new_utterance_id if it also left the id empty for a segment that is not
\* Finnish.
form_new_utterance_id_finnish_only(row, session) ==
    IF row.mpid > 0 /\ row.lang = "fi" THEN <<row.mpid, session, row.start, row.end>>
    ELSE <<>>

\* form_new_utterance_id(row, session): the id is kept as the list of the
\* fields that format it; the empty list is the empty string.
form_new_utterance_id(row, session) ==
    IF row.mpid > 0 THEN <<row.mpid, session, row.start, row.end>>
    ELSE <<>>

\* get_labels if the labels were paired with the segment rows as far as both
\* go, instead of being assigned as whole columns.
get_labels_truncating(rows, session, segments_df, info) ==
    [ok |-> TRUE,
     df |-> [k \in 1..Min(Len(segments_df), Len(info)) |->
                [uttid |-> segments_df[k].uttid, recordid |-> session,
                 start |-> segments_df[k].start, end |-> segments_df[k].end,
                 mpid  |-> 0,
                 lang  |-> get_segment_language(info[k], rows),
                 new_uttid |-> <<>>]]]

\* get_labels(df, segments_df, info)
get_labels(rows, session, segments_df, info) ==
    LET with_ids(lbl) ==
            [k \in 1..Len(lbl) |->
                [lbl[k] EXCEPT !.new_uttid = form_new_utterance_id(lbl[k], session)]]
        labels_of(spk) ==
            LET bad == {k \in 1..Len(info) : ~spk[k].ok}
            IN  IF bad /= {} THEN spk[CHOOSE k \in bad : \A j \in bad : k <= j]
                ELSE IF Len(info) /= Len(segments_df)
                THEN Raise("ValueError", "Length of values does not match length of index")
                ELSE [ok |-> TRUE,
                      df |-> with_ids(
                          [k \in 1..Len(segments_df) |->
                              [uttid |-> segments_df[k].uttid, recordid |-> session,
                               start |-> segments_df[k].start, end |-> segments_df[k].end,
                               mpid  |-> spk[k].mpid,
                               lang  |-> get_segment_language(info[k], rows),
                               new_uttid |-> <<>>]])]
    IN  labels_of([k \in 1..Len(info) |-> get_segment_speaker(info[k], rows)])

\* label_segments(transcript, ctm, segments, kalditext, recipe, errors):
\* text_df and segments_df have the same number of rows.
label_segments(t, rows, session, segments_df, text_df, errs) ==
    LET labeled(m, lab) ==
            IF ~lab.ok THEN lab @@ [errs |-> m.errs]
            ELSE [ok |-> TRUE, errs |-> m.errs, ctm |-> m,
                  segments_df |-> lab.df,
                  text_df |-> [k \in 1..Len(text_df) |->
                                  [uttid |-> text_df[k].uttid, text |-> text_df[k].text,
                                   new_uttid |-> lab.df[k].new_uttid,
                                   lang |-> lab.df[k].lang, mpid |-> lab.df[k].mpid]]]
        matched(m) ==
            IF ~m.raised.ok THEN m.raised @@ [errs |-> m.errs]
            ELSE labeled(m, get_labels(m.rows, session, segments_df,
                                       parse_segment_info(m.rows, Len(m.rows))))
    IN  matched(match_ctm_to_transcript(rows, t, session, errs))

----------------------------------------------------------------------------
(* postprocessing.py: PostProcessingPipeline                               *)

Absent == [state |-> "absent", rows |-> <<>>]

Complete(rows) == [state |-> "complete", rows |-> rows]

\* A file whose write failed: never created (the open failed) or left with
\* a part of its rows.
Failed(partial) == IF partial THEN [state |-> "partial", rows |-> <<>>] ELSE Absent

NoFiles == [segments_new |-> Absent, text_new |-> Absent,
            segments_dropped |-> Absent, text_dropped |-> Absent]

\* Rows of a table selected by a boolean mask (df[mask]), in order.
RECURSIVE select(_, _, _)
select(rows, mask, n) ==
    IF n = 0 THEN <<>>
    ELSE select(rows, mask, n - 1) \o (IF mask[n] THEN <<rows[n]>> ELSE <<>>)

\* The columns each of the four to_csv calls writes (IO.py:121-140, 167-187).
segments_new_cols(r) ==
    [new_uttid |-> r.new_uttid, recordid |-> r.recordid, start |-> r.start, end |-> r.end]

text_new_cols(r) == [new_uttid |-> r.new_uttid, text |-> r.text]

segments_dropped_cols(r) ==
    [uttid |-> r.uttid, recordid |-> r.recordid, start |-> r.start, end |-> r.end,
     mpid |-> r.mpid, lang |-> r.lang]

text_dropped_cols(r) == [uttid |-> r.uttid, lang |-> r.lang, mpid |-> r.mpid, text |-> r.text]

\* The mask of the kept segments if the language were left out of it.
kept_mask_without_language(segments_df) ==
    [k \in 1..Len(segments_df) |-> segments_df[k].new_uttid /= <<>>]

\* postprocessing.py:92: the mask of the kept segments.
kept_mask(segments_df) ==
    [k \in 1..Len(segments_df) |->
        segments_df[k].new_uttid /= <<>> /\ segments_df[k].lang = "fi"]

\* save_output if the dropped files were written from the whole tables instead
\* of from the rows outside the mask.
output_files_dropped_unmasked(segments_df, text_df, kept) ==
    <<[k \in 1..Len(select(segments_df, kept, Len(segments_df))) |->
          segments_new_cols(select(segments_df, kept, Len(segments_df))[k])],
      [k \in 1..Len(select(text_df, kept, Len(text_df))) |->
          text_new_cols(select(text_df, kept, Len(text_df))[k])],
      [k \in 1..Len(segments_df) |-> segments_dropped_cols(segments_df[k])],
      [k \in 1..Len(text_df) |-> text_dropped_cols(text_df[k])]>>

\* The four files save_output would write, in the order it writes them.
output_files(segments_df, text_df, kept) ==
    LET not_kept == [k \in 1..Len(kept) |-> ~kept[k]]
        cols(sk, tk, sd, td) ==
            <<[k \in 1..Len(sk) |-> segments_new_cols(sk[k])],
              [k \in 1..Len(tk) |-> text_new_cols(tk[k])],
              [k \in 1..Len(sd) |-> segments_dropped_cols(sd[k])],
              [k \in 1..Len(td) |-> text_dropped_cols(td[k])]>>
    IN  cols(select(segments_df, kept, Len(segments_df)),
             select(text_df, kept, Len(text_df)),
             select(segments_df, not_kept, Len(segments_df)),
             select(text_df, not_kept, Len(text_df)))

\* save_output if a failed write were swallowed: the later writes are still
\* made and the call returns normally.
save_output_swallowing_errors(segments_df, text_df, kept, fail_at, partial) ==
    [ok |-> TRUE,
     files |-> [segments_new     |-> IF fail_at = 1 THEN Failed(partial)
                                     ELSE Complete(output_files(segments_df, text_df, kept)[1]),
                text_new         |-> IF fail_at = 2 THEN Failed(partial)
                                     ELSE Complete(output_files(segments_df, text_df, kept)[2]),
                segments_dropped |-> IF fail_at = 3 THEN Failed(partial)
                                     ELSE Complete(output_files(segments_df, text_df, kept)[3]),
                text_dropped     |-> IF fail_at = 4 THEN Failed(partial)
                                     ELSE Complete(output_files(segments_df, text_df, kept)[4])]]

\* save_output(segments, kalditext, kept_segments): four writes in a row;
\* fail_at is the write (1..4) that raises, 0 when none does.
save_output(segments_df, text_df, kept, fail_at, partial) ==
    LET written(out) ==
            [k \in 1..4 |->
                IF fail_at = 0 \/ k < fail_at THEN Complete(out[k])
                ELSE IF k = fail_at THEN Failed(partial)
                ELSE Absent]
        named(f) ==
            [ok |-> fail_at = 0,
             files |-> [segments_new |-> f[1], text_new |-> f[2],
                        segments_dropped |-> f[3], text_dropped |-> f[4]]]
    IN  named(written(output_files(segments_df, text_df, kept)))

\* compose_stats(df, segments_df, dropped_segments): the counting columns.
compose_stats(ctm, segments_df, dropped) ==
    [statements        |-> ctm.statements,
     failed_statements |-> ctm.failed,
     segments          |-> Len(segments_df),
     dropped_segments  |-> Len(dropped),
     failed_segments   |-> Cardinality({k \in 1..Len(dropped) : dropped[k].mpid = 0}),
     multiple_spk      |-> Cardinality({k \in 1..Len(dropped) : dropped[k].mpid = -1}),
     swedish           |-> Cardinality({k \in 1..Len(dropped) :
                                           Contains(Chars(dropped[k].lang), SV)})]

\* The steps of postprocess_session at which reading or writing a file can
\* raise an OSError.
IOSteps == {"none", "json", "ctm", "segments", "text", "w1", "w2", "w3", "w4"}

WriteNo(io) == CASE io = "w1" -> 1 [] io = "w2" -> 2 [] io = "w3" -> 3
                 [] io = "w4" -> 4 [] OTHER -> 0

NoLocals == [ctm_loaded |-> FALSE, labeled |-> FALSE, segments_df |-> <<>>,
             text_df |-> <<>>, kept |-> <<>>]

\* postprocess_session(path, json_file, session): what the call leaves behind.
\* sess holds the session id, its transcript and the lines of its three
\* Kaldi files; io is the step whose file access raises.  exc is the
\* exception the except clause caught (ok when none was raised).
postprocess_session(sess, io, partial, errs) ==
    LET none   == [files |-> NoFiles, stat |-> <<>>, errs |-> errs, locals |-> NoLocals]
        loaded == [NoLocals EXCEPT !.ctm_loaded = TRUE]
        saved(lab, kept, out) ==
            LET not_kept == [k \in 1..Len(kept) |-> ~kept[k]]
                labeled  == [ctm_loaded |-> TRUE, labeled |-> TRUE,
                             segments_df |-> lab.segments_df, text_df |-> lab.text_df,
                             kept |-> kept]
            IN  IF ~out.ok
                THEN [files |-> out.files, stat |-> <<>>, errs |-> lab.errs,
                      locals |-> labeled, exc |-> Raise("OSError", io)]
                ELSE [files |-> out.files,
                      stat |-> <<compose_stats(lab.ctm, lab.segments_df,
                                               select(lab.segments_df, not_kept, Len(kept)))>>,
                      errs |-> lab.errs, locals |-> labeled, exc |-> [ok |-> TRUE]]
        masked(lab, kept) ==
            saved(lab, kept,
                  save_output(lab.segments_df, lab.text_df, kept, WriteNo(io), partial))
        labeled_as(lab) ==
            IF ~lab.ok
            THEN [none EXCEPT !.locals = loaded, !.errs = lab.errs]
                 @@ [exc |-> Raise(lab.kind, lab.err)]
            ELSE masked(lab, kept_mask(lab.segments_df))
        with_ctm(ctm) ==
            IF ~ctm.ok
            THEN none @@ [exc |-> ctm]
            ELSE IF io = "segments"
            THEN [none EXCEPT !.locals = loaded] @@ [exc |-> Raise("OSError", "segments")]
            ELSE IF io = "text"
            THEN [none EXCEPT !.locals = loaded] @@ [exc |-> Raise("OSError", "text")]
            ELSE labeled_as(label_segments(sess.transcript, ctm.rows, sess.session,
                                           segments_get_df(sess.segments),
                                           text_get_df(sess.text), errs))
    IN  IF io = "json"
        THEN none @@ [exc |-> Raise("OSError", "json")]
        ELSE IF io = "ctm"
        THEN none @@ [exc |-> Raise("OSError", "ctm_edits.segmented")]
        ELSE with_ctm(ctm_get_df(sess.ctm))


\* An except clause that names ValueError only.
caught_value_errors_only(exc) == exc.kind = "ValueError"

\* postprocessing.py:97: "except Exception" catches every exception the body
\* raises.
caught(exc) == TRUE

----------------------------------------------------------------------------
(* Bounds and the inputs drawn from them                                   *)

\* Sessions in the list handed to the pipeline.
MaxSessions == 2

\* Main statements of a transcript.
MaxStatements == 2

\* The MPs of the statements have the ids 1..MaxMpid.
MaxMpid == 2

Alphabet == <<"a", "b", "c", "d", "e", "f", "g", "h", "i", "j", "k", "l">>

SessionIds == <<"001-2016", "002-2016", "003-2016", "004-2016">>

MpNames == <<"None", "Anna", "Bert", "Cia", "Dan">>

StmtLangs == {"fi", "sv.p"}

NoEmbedded == [mp_id |-> 0, firstname |-> "", lastname |-> "", language |-> "", text |-> <<>>]

\* A main statement without an embedded statement.
Stmt(mp, lang, text) ==
    [mp_id |-> mp, firstname |-> "Mp", lastname |-> MpNames[mp + 1], language |-> lang,
     text |-> text, embedded_statement |-> NoEmbedded]

\* The reference text of a session: statement k says words 2k-1 and 2k, and
\* trail words that belong to no statement follow the last one.
RefWords(trail) == SubSeq(Alphabet, 1, 2 * MaxStatements + trail)

\* What a transcript may hold at position k: nothing, or a statement by an
\* MP in a language.
StmtChoices == {<<>>} \cup {<<mp, lang>> : mp \in 1..MaxMpid, lang \in StmtLangs}

RECURSIVE statements_of(_, _)
statements_of(choice, n) ==
    IF n = 0 THEN <<>>
    ELSE statements_of(choice, n - 1)
         \o (IF choice[n] = <<>> THEN <<>>
             ELSE <<Stmt(choice[n][1], choice[n][2],
                         <<Alphabet[2 * n - 1], Alphabet[2 * n]>>)>>)

\* Transcripts: one subsection with the chosen statements in order.
Transcripts ==
    {<<statements_of(c, MaxStatements)>> : c \in [1..MaxStatements -> StmtChoices]}

\* The lines of a .ctm_edits.segmented file over the reference words: one
\* uniform segment starting at begin; with noisy, the first word of every
\* statement is a substitution; a marker opens a Kaldi segment every seglen
\* words.
CtmLines(trail, noisy, seglen, begin) ==
    LET ref == RefWords(trail)
    IN  [k \in 1..Len(ref) |->
            [session      |-> [begin |-> begin, end |-> begin + 1, number |-> k - 1],
             transcript   |-> ref[k],
             edit         |-> IF noisy /\ k % 2 = 1 THEN "sub" ELSE "cor",
             segment_info |-> IF (k - 1) % seglen = 0
                              THEN <<[seg_num |-> (k - 1) \div seglen + 1,
                                      start |-> k - 1,
                                      end |-> Min(k - 1 + seglen, Len(ref))]>>
                              ELSE <<>>]]

\* The .segments and .text lines of the Kaldi segments of such a CTM, short
\* of the last `missing` segments.
NumSegments(trail, seglen) == (Len(RefWords(trail)) + seglen - 1) \div seglen

SegmentLines(trail, seglen, begin, missing) ==
    [j \in 1..(NumSegments(trail, seglen) - missing) |->
        [uttid    |-> [begin |-> begin, end |-> begin + 1, number |-> (j - 1) * seglen],
         recordid |-> "rec", start |-> 10 * (j - 1), end |-> 10 * j]]

TextLines(trail, seglen, begin, missing) ==
    [j \in 1..(NumSegments(trail, seglen) - missing) |->
        [uttid |-> [begin |-> begin, end |-> begin + 1, number |-> (j - 1) * seglen],
         text  |-> Slice(RefWords(trail), (j - 1) * seglen, j * seglen)]]

\* A session on disk.
Session(t, trail, noisy, seglen, begin, missing) ==
    [transcript |-> t,
     ctm        |-> CtmLines(trail, noisy, seglen, begin),
     segments   |-> SegmentLines(trail, seglen, begin, missing),
     text       |-> TextLines(trail, seglen, begin, missing)]

\* The sessions a single run is studied on.
Sessions ==
    {Session(t, 3, noisy, seglen, 0, missing) :
        t \in Transcripts, noisy \in BOOLEAN, seglen \in {2, 3}, missing \in {0, 1}}

\* The sessions lists of several are formed from: a session whose two
\* statements are found, one whose CTM lacks its first segment, and one with
\* fewer segments than markers.
FullTranscript == <<[k \in 1..MaxStatements |-> Stmt(1, "fi", <<Alphabet[2 * k - 1], Alphabet[2 * k]>>)]>>

DriverSessions ==
    {Session(FullTranscript, 3, FALSE, 2, 0, 0),
     Session(FullTranscript, 3, FALSE, 2, 1, 0),
     Session(FullTranscript, 3, FALSE, 2, 0, 1)}

\* PostProcessingPipeline.__init__: the input tuples, session ids in order.
InputLists(S, lo, hi) ==
    {[k \in DOMAIN c |-> c[k] @@ [session |-> SessionIds[k]]] :
        c \in UNION {[1..n -> S] : n \in lo..hi}}

----------------------------------------------------------------------------
(* The pipeline: run() over the inputs                                     *)

NoMatch == [next |-> 0, queue |-> <<>>, state |-> "idle"]

NoDf == [rows |-> <<>>, statements |-> 0, failed |-> 0, session |-> ""]

InitPipeline(lists) ==
    /\ inputs \in lists
    /\ pos = 0
    /\ pc = "run"
    /\ files = [k \in 1..Len(inputs) |-> NoFiles]
    /\ stats = {}
    /\ log = <<>>
    /\ errors = <<>>
    /\ locals = NoLocals
    /\ df = NoDf
    /\ transcript = <<>>
    /\ mpc = NoMatch
    /\ args = <<>>
    /\ result = <<>>

\* postprocessing.py:72-75: one pass of the loop of run(): the session is
\* announced in the log and postprocess_session is called on it.
run_iteration ==
    /\ pc = "run"
    /\ pos < Len(inputs)
    /\ \E io \in IOSteps, partial \in BOOLEAN :
          \E r \in {postprocess_session(inputs[pos + 1], io, partial, errors)} :
          LET session == inputs[pos + 1].session
              info    == [level |-> "info", session |-> session, err |-> ""]
          IN  /\ files' = [files EXCEPT ![pos + 1] = r.files]
              /\ stats' = IF r.stat = <<>> THEN stats
                          ELSE {e \in stats : e.session /= session}
                               \cup {[session |-> session, row |-> r.stat[1]]}
              /\ errors' = r.errs
              /\ locals' = r.locals
              /\ IF r.exc.ok
                 THEN log' = Append(log, info) /\ pc' = pc /\ pos' = pos + 1
                 ELSE IF caught(r.exc)
                 THEN /\ log' = log \o <<info, [level |-> "exception",
                                               session |-> session,
                                               err |-> r.exc.err]>>
                      /\ pc' = pc
                      /\ pos' = pos + 1
                 ELSE log' = Append(log, info) /\ pc' = "raised" /\ pos' = pos + 1
    /\ UNCHANGED <<inputs, df, transcript, mpc, args, result>>

\* run() returns after the last session.
run_return ==
    /\ pc = "run"
    /\ pos = Len(inputs)
    /\ pc' = "done"
    /\ UNCHANGED <<inputs, pos, files, stats, log, errors, locals, df, transcript, mpc,
                   args, result>>

Next == run_iteration \/ run_return

Init == InitPipeline(InputLists(DriverSessions, 0, MaxSessions))

Spec == Init /\ [][Next]_vars

InitSession == InitPipeline(InputLists(Sessions, 1, 1))

SpecSession == InitSession /\ [][Next]_vars


----------------------------------------------------------------------------
(* Properties of one postprocessed session                                 *)

\* The output files of the session postprocess_session was last called on.
LastFiles == files[pos]

AllWritten ==
    /\ pos >= 1
    /\ \A name \in DOMAIN LastFiles : LastFiles[name].state = "complete"

\* The kept and the dropped rows of the last session, by the labels the
\* segments had when they were saved.
KeptSegments == {k \in 1..Len(locals.segments_df) : locals.kept[k]}

DroppedSegments == {k \in 1..Len(locals.segments_df) : ~locals.kept[k]}

\* C1: every segment written to the kept (.new) output has a speaker id above
\* zero and the language label "fi"; every segment written to the dropped
\* output has a speaker id of zero or below, or a language label other than
\* "fi".
C1_KeptFinnishOneSpeaker ==
    (pos >= 1 /\ locals.labeled) =>
        /\ \A name \in {"segments_new", "text_new"} :
              LastFiles[name].state = "complete" =>
                  \A i \in 1..Len(LastFiles[name].rows) :
                      /\ LastFiles[name].rows[i].new_uttid /= <<>>
                      /\ LastFiles[name].rows[i].new_uttid[1] > 0
                      /\ \E k \in 1..Len(locals.segments_df) :
                            locals.segments_df[k].new_uttid = LastFiles[name].rows[i].new_uttid
                      /\ \A k \in 1..Len(locals.segments_df) :
                            locals.segments_df[k].new_uttid = LastFiles[name].rows[i].new_uttid
                            => /\ locals.segments_df[k].mpid > 0
                               /\ locals.segments_df[k].lang = "fi"
        /\ \A name \in {"segments_dropped", "text_dropped"} :
              LastFiles[name].state = "complete" =>
                  \A i \in 1..Len(LastFiles[name].rows) :
                      \/ LastFiles[name].rows[i].mpid <= 0
                      \/ LastFiles[name].rows[i].lang /= "fi"

\* A session with a kept segment, a segment dropped for its language only and
\* a segment dropped for its speaker id.
C1_Witness ==
    /\ AllWritten
    /\ LastFiles.segments_new.rows /= <<>>
    /\ \E i \in 1..Len(LastFiles.segments_dropped.rows) :
          /\ LastFiles.segments_dropped.rows[i].mpid > 0
          /\ LastFiles.segments_dropped.rows[i].lang /= "fi"
    /\ \E i \in 1..Len(LastFiles.segments_dropped.rows) :
          LastFiles.segments_dropped.rows[i].mpid <= 0

RECURSIVE Picked(_, _)
\* The positions 1..n at which mask holds, in increasing order.
Picked(mask, n) ==
    IF n = 0 THEN <<>>
    ELSE Picked(mask, n - 1) \o (IF mask[n] THEN <<n>> ELSE <<>>)

\* The four files are the split of the input tables by mask: the kept files
\* hold the rows at which it holds, the dropped files the others, both tables
\* by the same mask and in input order.
SplitBy(mask) ==
    LET seg_in == inputs[pos].segments
        txt_in == inputs[pos].text
        K      == Picked(mask, Len(seg_in))
        D      == Picked([k \in 1..Len(seg_in) |-> ~mask[k]], Len(seg_in))
        sn     == LastFiles.segments_new.rows
        tn     == LastFiles.text_new.rows
        sd     == LastFiles.segments_dropped.rows
        td     == LastFiles.text_dropped.rows
    IN  /\ Len(sn) = Len(K) /\ Len(tn) = Len(K)
        /\ Len(sd) = Len(D) /\ Len(td) = Len(D)
        /\ \A i \in 1..Len(K) :
              /\ sn[i].start = seg_in[K[i]].start + seg_in[K[i]].uttid.begin
              /\ sn[i].end = seg_in[K[i]].end + seg_in[K[i]].uttid.begin
              /\ tn[i].text = txt_in[K[i]].text
              /\ tn[i].new_uttid = sn[i].new_uttid
        /\ \A i \in 1..Len(D) :
              /\ sd[i].uttid = seg_in[D[i]].uttid
              /\ td[i].uttid = txt_in[D[i]].uttid
              /\ td[i].text = txt_in[D[i]].text

\* C2: each input segment row ends up in exactly one of the kept and the
\* dropped output; the text table is split by the same mask as the segments
\* table; input order is preserved within each output.
C2_OutputsPartitionInput ==
    AllWritten => \E mask \in [1..Len(inputs[pos].segments) -> BOOLEAN] : SplitBy(mask)

\* A session written in full in which a dropped segment comes before a kept
\* one.
C2_Witness ==
    /\ AllWritten
    /\ \E i, j \in 1..Len(locals.segments_df) :
          i < j /\ i \in DroppedSegments /\ j \in KeptSegments
    /\ \E i, j \in 1..Len(locals.segments_df) :
          i < j /\ i \in KeptSegments /\ j \in DroppedSegments

\* C3 as the specification states it: after labeling, the new utterance id of
\* a segment is empty exactly when its speaker id is 0 or -1 or its language is
\* not "fi".
C3_EmptyIdIffNoSpeakerOrNotFinnish ==
    locals.labeled =>
        \A k \in 1..Len(locals.segments_df) :
            (locals.segments_df[k].new_uttid = <<>>)
            <=> (\/ locals.segments_df[k].mpid \in {0, -1}
                 \/ locals.segments_df[k].lang /= "fi")

\* C3 as the code has it: after labeling, the new utterance id of a segment is
\* empty exactly when its speaker id is 0 or -1, whatever its language, in the
\* segments table and in the text table.
C3_EmptyIdIffNoSpeaker ==
    locals.labeled =>
        \A k \in 1..Len(locals.segments_df) :
            /\ (locals.segments_df[k].new_uttid = <<>>)
               <=> (locals.segments_df[k].mpid \in {0, -1})
            /\ locals.text_df[k].new_uttid = locals.segments_df[k].new_uttid

\* A labeled session with a Swedish segment of one speaker that has an id, a
\* segment of several speakers and a segment of no speaker.
C3_Witness ==
    /\ locals.labeled
    /\ \E k \in 1..Len(locals.segments_df) :
          /\ locals.segments_df[k].mpid > 0
          /\ locals.segments_df[k].lang = "sv"
          /\ locals.segments_df[k].new_uttid /= <<>>
    /\ \E k \in 1..Len(locals.segments_df) : locals.segments_df[k].mpid = -1
    /\ \E k \in 1..Len(locals.segments_df) : locals.segments_df[k].mpid = 0


----------------------------------------------------------------------------
(* Properties of a run over several sessions                               *)

RECURSIVE announced(_)
\* The sessions of the "Processing ... next." entries of the log, in order.
announced(entries) ==
    IF entries = <<>> THEN <<>>
    ELSE (IF Head(entries).level = "info" THEN <<Head(entries).session>> ELSE <<>>)
         \o announced(Tail(entries))

\* Session k of the inputs ended in the except clause.
FailedSession(k) ==
    \E i \in 1..Len(log) : log[i].level = "exception" /\ log[i].session = inputs[k].session

\* Session k of the inputs has a row in the statistics table.
HasStats(k) == \E e \in stats : e.session = inputs[k].session

FilesComplete(k) == \A name \in DOMAIN files[k] : files[k][name].state = "complete"

FilesAbsent(k) == \A name \in DOMAIN files[k] : files[k][name].state = "absent"

\* C7: an exception raised while a session is processed is caught inside
\* postprocess_session and does not stop the run: no exception leaves run(),
\* the sessions attempted so far are the first pos sessions of the input list,
\* each once and in input order, and run() returns only after the last one.
C7_EverySessionAttemptedOnce ==
    /\ pc /= "raised"
    /\ announced(log) = [k \in 1..pos |-> inputs[k].session]
    /\ pc = "done" => pos = Len(inputs)

\* A run that has returned, whose first session failed and whose second
\* session was postprocessed in full.
C7_Witness ==
    /\ pc = "done"
    /\ Len(inputs) >= 2
    /\ FailedSession(1)
    /\ ~FailedSession(2) /\ HasStats(2) /\ FilesComplete(2)

\* C8 as the specification states it: the output files of a session are
\* written all or nothing, also when a write fails: either none of the four
\* files is there or all four are complete.
C8_OutputAllOrNothing ==
    \A k \in 1..Len(inputs) : FilesAbsent(k) \/ FilesComplete(k)

\* C9 as the specification states it: a session whose CTM was parsed has a
\* statistics row, even if a later step failed.
C9_StatsForEveryParsedCtm ==
    (pos >= 1 /\ locals.ctm_loaded) => HasStats(pos)

\* C9 as the code has it: a session has a statistics row exactly when no
\* exception was raised in it, that is when every step up to the last write
\* succeeded; a session whose CTM was parsed and that failed later has none.
C9_StatsIffNoStepFailed ==
    \A k \in 1..pos :
        /\ HasStats(k) <=> ~FailedSession(k)
        /\ HasStats(k) => FilesComplete(k)

\* A run in which a session whose CTM was parsed failed later and has no
\* statistics row, after a session that has one.
C9_Witness ==
    /\ pos >= 2
    /\ HasStats(1)
    /\ locals.ctm_loaded /\ FailedSession(pos) /\ ~HasStats(pos)


----------------------------------------------------------------------------
(* match_ctm_to_transcript, one pass of a loop at a time                   *)

\* The reference words of a session in which the words of the first
\* statement are said again after the last statement, and one more word.
RepeatWords ==
    RefWords(0) \o SubSeq(Alphabet, 1, 2)
    \o SubSeq(Alphabet, 2 * MaxStatements + 1, 2 * MaxStatements + 1)

\* The lines of the CTM over given reference words, as CtmLines forms them.
CtmLinesOver(ref, noisy, seglen) ==
    [k \in 1..Len(ref) |->
        [session      |-> [begin |-> 0, end |-> 1, number |-> k - 1],
         transcript   |-> ref[k],
         edit         |-> IF ref[k] = EPS THEN "ins"
                          ELSE IF noisy /\ k % 2 = 1 THEN "sub" ELSE "cor",
         segment_info |-> IF (k - 1) % seglen = 0
                          THEN <<[seg_num |-> (k - 1) \div seglen + 1,
                                  start |-> k - 1,
                                  end |-> Min(k - 1 + seglen, Len(ref))]>>
                          ELSE <<>>]]

\* Sessions in whose CTM a word without a reference word stands between the
\* two words of the first statement.
InsertionSessions ==
    {[transcript |-> t,
      ctm        |-> CtmLinesOver(SubSeq(Alphabet, 1, 1) \o <<EPS>>
                                  \o SubSeq(Alphabet, 2, 2 * MaxStatements), noisy, 2),
      segments   |-> <<>>,
      text       |-> <<>>] :
        t \in Transcripts, noisy \in BOOLEAN}

\* Sessions whose last statement repeats the words of the first one; the
\* matcher reads neither the segments nor the text file.
RepeatSessions ==
    {[transcript |-> <<FullTranscript[1]
                       \o <<Stmt(mp, lang, SubSeq(Alphabet, 1, 2))>>>>,
      ctm        |-> CtmLinesOver(RepeatWords, noisy, 2),
      segments   |-> <<>>,
      text       |-> <<>>] :
        mp \in 1..MaxMpid, lang \in Langs \ {""}, noisy \in BOOLEAN}

\* A main statement that the chairman interrupts: its text holds the marker
\* between what the MP says before and after, and the chairman's words are
\* the text of the embedded statement.
InterruptedStmt(mp, lang, pre, emb, post) ==
    [Stmt(mp, lang, pre \o <<CH_STATEMENT>> \o post) EXCEPT
        !.embedded_statement =
            [mp_id |-> MaxMpid + 1, firstname |-> "Chair",
             lastname |-> MpNames[MaxMpid + 2], language |-> "fi", text |-> emb]]

\* What an MP says before the chairman interrupts: one word, one word and a
\* punctuation token, or two words.
PreTexts == {SubSeq(Alphabet, 1, 1), SubSeq(Alphabet, 1, 1) \o <<PUNCT>>, SubSeq(Alphabet, 1, 2)}

\* What the MP says after the interruption: nothing, or two words.
PostTexts == {<<>>, SubSeq(Alphabet, 5, 6)}

\* Sessions with an interrupted statement followed by a statement of another
\* MP; the reference words are the words said, in order, and one more.
PieceSessions ==
    {[transcript |-> <<<<InterruptedStmt(1, lang, pre, SubSeq(Alphabet, 3, 4), post),
                         Stmt(MaxMpid, "fi", SubSeq(Alphabet, 7, 8))>>>>,
      ctm        |-> CtmLinesOver(apply(pre) \o SubSeq(Alphabet, 3, 4) \o post
                                  \o SubSeq(Alphabet, 7, 9), FALSE, 2),
      segments   |-> <<>>,
      text       |-> <<>>] :
        lang \in StmtLangs, pre \in PreTexts, post \in PostTexts}

\* The sessions the matcher is studied on: with and without words after the
\* last statement, with and without substituted words.
MatchSessions ==
    {Session(t, trail, noisy, 2, 0, 0) :
        t \in Transcripts, trail \in {0, 3}, noisy \in BOOLEAN}
    \cup RepeatSessions \cup PieceSessions \cup InsertionSessions

\* The matcher's state as match_statement and match_piece take it.
MatcherState ==
    [rows |-> df.rows, statements |-> df.statements, failed |-> df.failed,
     errs |-> errors, queue |-> mpc.queue, raised |-> [ok |-> TRUE]]

InitMatch ==
    /\ inputs \in InputLists(MatchSessions, 1, 1)
    /\ pos = 1
    /\ pc = "run"
    /\ files = [k \in 1..Len(inputs) |-> NoFiles]
    /\ stats = {}
    /\ log = <<>>
    /\ errors = <<>>
    /\ locals = NoLocals
    /\ df = [rows |-> ctm_get_df(inputs[1].ctm).rows, statements |-> 0, failed |-> 0,
             session |-> inputs[1].session]
    /\ transcript = main_statements(inputs[1].transcript)
    /\ mpc = [next |-> 1, queue |-> <<>>, tried |-> 0, starts |-> <<>>, state |-> "loop"]
    /\ args = <<>>
    /\ result = <<>>

\* labeler.py:75-88: the next main statement is taken and its pieces are
\* queued.
match_next_statement ==
    /\ mpc.state = "loop"
    /\ mpc.queue = <<>>
    /\ mpc.next <= Len(transcript)
    /\ \E st \in {match_statement(MatcherState, transcript[mpc.next])} :
          /\ df' = [df EXCEPT !.statements = st.statements]
          /\ mpc' = [mpc EXCEPT !.next = @ + 1, !.queue = st.queue]
    /\ UNCHANGED <<inputs, pos, pc, files, stats, log, errors, locals, transcript,
                   args, result>>

\* labeler.py:89-95: the next piece of the statement is tried.
match_next_piece ==
    /\ mpc.state = "loop"
    /\ mpc.queue /= <<>>
    /\ \E st \in {match_piece(MatcherState, df.session)},
          found \in {find_statement(df.rows, Head(mpc.queue)[1], Head(mpc.queue)[2].language,
                                    MATCH_LIMIT, WINDOW_SIZE, WINDOW_STEP)} :
          /\ df' = [df EXCEPT !.rows = st.rows, !.failed = st.failed]
          /\ errors' = st.errs
          /\ mpc' = [mpc EXCEPT !.queue = st.queue, !.tried = @ + 1,
                                !.starts = IF found.ok THEN Append(@, found.start) ELSE @,
                                !.state = IF st.raised.ok THEN "loop" ELSE "raised"]
    /\ UNCHANGED <<inputs, pos, pc, files, stats, log, locals, transcript, args, result>>

\* labeler.py:96: return df after the last statement.
match_return ==
    /\ mpc.state = "loop"
    /\ mpc.queue = <<>>
    /\ mpc.next > Len(transcript)
    /\ mpc' = [mpc EXCEPT !.state = "returned"]
    /\ UNCHANGED <<inputs, pos, pc, files, stats, log, errors, locals, df, transcript,
                   args, result>>

NextMatch == match_next_statement \/ match_next_piece \/ match_return

SpecMatch == InitMatch /\ [][NextMatch]_vars

\* The piece at the head of the queue cannot be located.
PieceFails ==
    /\ mpc.state = "loop"
    /\ mpc.queue /= <<>>
    /\ \E r \in {assign_speaker(df.rows, Head(mpc.queue)[1], Head(mpc.queue)[2])} :
          /\ ~r.ok
          /\ r.err \in {"Alignment not found.", "Statement end index not found.",
                        "Found segment is of length 0."}

\* C6: when aligning one statement piece fails, exactly one diagnostic message
\* is appended to the error list, the failed counter goes up by one, the CTM
\* is left as it was and the loop goes on with the next piece; the function
\* returns only after every statement of the transcript was taken and every
\* piece was tried.
C6_FailedPieceIsSkipped ==
    /\ [][PieceFails =>
            /\ Len(errors') = Len(errors) + 1
            /\ SubSeq(errors', 1, Len(errors)) = errors
            /\ errors'[Len(errors')].stmnt = Head(mpc.queue)[2]
            /\ df'.failed = df.failed + 1
            /\ df'.rows = df.rows
            /\ mpc'.state = "loop"
            /\ mpc'.queue = Tail(mpc.queue)
            /\ mpc'.next = mpc.next]_vars
    /\ [](mpc.state /= "raised")
    /\ [](mpc.state = "returned" =>
            /\ mpc.next = Len(transcript) + 1
            /\ mpc.queue = <<>>
            /\ mpc.tried = df.statements
            /\ Len(errors) = df.failed)

\* The matcher has returned; the first statement failed and left its message,
\* and the second statement, of another MP, was found after it.
C6_Witness ==
    /\ mpc.state = "returned"
    /\ Len(transcript) >= 2
    /\ df.failed = 1
    /\ Len(errors) = 1
    /\ errors[1].stmnt = transcript[1]
    /\ transcript[2].mp_id /= transcript[1].mp_id
    /\ \E k \in 1..Len(df.rows) : df.rows[k].mpid = transcript[2].mp_id

----------------------------------------------------------------------------
(* Single functions on bounded arguments                                   *)

\* Rows of a CTM given to a function under study.
MaxRows == 3

\* seg_start takes the values 0..MaxStart.
MaxStart == 3

\* The state before the function under study is called on its arguments.
InitCall(argsets) ==
    /\ args \in argsets
    /\ result = <<>>
    /\ pc = "call"
    /\ inputs = <<>>
    /\ pos = 0
    /\ files = <<>>
    /\ stats = {}
    /\ log = <<>>
    /\ errors = <<>>
    /\ locals = NoLocals
    /\ df = NoDf
    /\ transcript = <<>>
    /\ mpc = NoMatch

\* A CTM row as get_labels passes it on: labeled by the matcher, with its
\* edit.
LabeledRow(mpid, lang, edit) ==
    [transcript |-> "w", edit |-> edit, segment_info |-> <<>>, speaker |-> <<"unknown">>,
     mpid |-> mpid, lang |-> lang, seg_start |-> 0, seg_end |-> 1, word_id |-> 0]

\* A row of the segment info table: the segment defined at row `name`, which
\* starts there and is `length` rows long.
InfoRow(name, length) ==
    [name |-> name, seg_num |-> 1, seg_start_idx |-> name, seg_end_idx |-> name + length,
     word_id |-> name]

InfoRows == {InfoRow(name, length) : name \in {0, 1}, length \in 0..2}

SpeakerArgs ==
    {[row |-> i, rows |-> r] :
        i \in InfoRows,
        r \in SeqsOf({LabeledRow(m, "", e) : m \in 0..MaxMpid, e \in {"cor", "sil", "fix"}},
                     1, MaxRows)}

LanguageArgs ==
    {[row |-> i, rows |-> r] :
        i \in InfoRows,
        r \in SeqsOf({LabeledRow(0, l, e) : l \in {"", "fi", "sv", "sv.p", "fi+sv"},
                                            e \in {"cor", "sil"}},
                     1, MaxRows)}

\* The lines of a CTM whose segment ids start at the given times.
CtmArgs ==
    {[k \in 1..Len(starts) |->
         [session |-> [begin |-> starts[k], end |-> starts[k] + 1, number |-> k - 1],
          transcript |-> "w", edit |-> "cor", segment_info |-> <<>>]] :
        starts \in SeqsOf(0..MaxStart, 1, MaxRows + 1)}

Returned == pc = "returned"

call_get_segment_speaker ==
    /\ pc = "call"
    /\ result' = <<get_segment_speaker(args.row, args.rows)>>
    /\ pc' = "returned"
    /\ UNCHANGED <<inputs, pos, files, stats, log, errors, locals, df, transcript, mpc, args>>

InitSpeaker == InitCall(SpeakerArgs)

SpecSpeaker == InitSpeaker /\ [][call_get_segment_speaker]_vars

call_get_segment_language ==
    /\ pc = "call"
    /\ result' = <<get_segment_language(args.row, args.rows)>>
    /\ pc' = "returned"
    /\ UNCHANGED <<inputs, pos, files, stats, log, errors, locals, df, transcript, mpc, args>>

InitLanguage == InitCall(LanguageArgs)

SpecLanguage == InitLanguage /\ [][call_get_segment_language]_vars

call_ctm_get_df ==
    /\ pc = "call"
    /\ result' = <<ctm_get_df(args)>>
    /\ pc' = "returned"
    /\ UNCHANGED <<inputs, pos, files, stats, log, errors, locals, df, transcript, mpc, args>>

InitCtm == InitCall(CtmArgs)

SpecCtm == InitCtm /\ [][call_ctm_get_df]_vars

\* adjust_indices on the rows of a CTM and a range start_idx..end_idx of them.
AdjustArgs ==
    {[rows |-> r, start_idx |-> s, end_idx |-> e] :
        r \in SeqsOf({LabeledRow(0, "", e) : e \in {"cor", "sub"}}, 1, MaxRows),
        s \in 0..MaxRows, e \in 0..MaxRows}

call_adjust_indices ==
    /\ pc = "call"
    /\ args.start_idx <= args.end_idx
    /\ args.end_idx <= Len(args.rows)
    /\ result' = <<adjust_indices(args.rows, args.start_idx, args.end_idx)>>
    /\ pc' = "returned"
    /\ UNCHANGED <<inputs, pos, files, stats, log, errors, locals, df, transcript, mpc, args>>

InitAdjust == InitCall(AdjustArgs)

SpecAdjust == InitAdjust /\ [][call_adjust_indices]_vars


----------------------------------------------------------------------------
(* Properties of the single functions                                      *)

\* The rows of the segment of args: rows [S, S + L) of the CTM whose edit is
\* neither sil nor fix.
SegmentRows ==
    {k \in 1..Len(args.rows) :
        /\ args.row.name + 1 <= k
        /\ k <= args.row.name + (args.row.seg_end_idx - args.row.seg_start_idx)
        /\ args.rows[k].edit \notin {"sil", "fix"}}

SegmentMpids == {args.rows[k].mpid : k \in SegmentRows}

ZeroRows == {k \in SegmentRows : args.rows[k].mpid = 0}

\* The speaker the policy names for the segment of args.
PolicySpeaker ==
    IF Cardinality(SegmentMpids) = 1 THEN CHOOSE m \in SegmentMpids : TRUE
    ELSE IF Cardinality(SegmentMpids) = 2 /\ 0 \in SegmentMpids /\ Cardinality(ZeroRows) < 2
    THEN CHOOSE m \in SegmentMpids : m /= 0
    ELSE -1

\* C4 as the specification states it: for every segment, get_segment_speaker
\* returns the single mpid of the slice when it has one distinct mpid, the
\* non-zero mpid when it has two distinct mpids of which one is 0 and fewer
\* than two rows with mpid 0, and -1 in every other case.
C4_SpeakerPolicy ==
    Returned => result[1].ok /\ result[1].mpid = PolicySpeaker

\* C4 on the segments that have a row left: there the function returns what
\* the policy names.
C4_SpeakerPolicyOnNonEmptySlices ==
    (Returned /\ SegmentRows /= {}) => result[1].ok /\ result[1].mpid = PolicySpeaker

\* The labels of the rows of the segment of args.
SegmentLangs == {args.rows[k].lang : k \in SegmentRows}

IncludesFi == \E l \in SegmentLangs : Contains(Chars(l), FI)

IncludesSv == \E l \in SegmentLangs : Contains(Chars(l), SV)

\* C5: get_segment_language returns "fi+sv" when the distinct labels of the
\* slice include both fi and sv, "sv" when they include sv but not fi, and
\* "fi" otherwise, also when no row of the slice is labeled; the result is
\* always one of "fi", "sv", "fi+sv".
C5_LanguagePolicy ==
    Returned =>
        /\ result[1] \in {"fi", "sv", "fi+sv"}
        /\ result[1] = IF IncludesFi /\ IncludesSv THEN "fi+sv"
                       ELSE IF IncludesSv THEN "sv"
                       ELSE "fi"

\* A segment with a Finnish row and a row of a Swedish statement, labeled
\* "fi+sv".
C5_Witness ==
    /\ Returned
    /\ "fi" \in SegmentLangs /\ "sv.p" \in SegmentLangs
    /\ SegmentLangs = {"fi", "sv.p"}
    /\ result[1] = "fi+sv"

\* The seg_start of the rows of the CTM of args.
Starts == [k \in 1..Len(args) |-> args[k].session.begin]

\* The differences between the seg_start of consecutive rows.
ConsecutiveDiffs == {Starts[k + 1] - Starts[k] : k \in 1..(Len(Starts) - 1)}

\* The error of a failed load, by the rule: the first segment is looked at
\* first.
LoadError ==
    IF Starts[1] /= 0 THEN "First segment is missing." ELSE "There is a missing segment."

\* C10 as the specification states it: loading a CTM succeeds only if the
\* first seg_start is 0 and the set of differences between the seg_start of
\* consecutive rows has at most two values, one of them 0; otherwise it fails
\* with its error and returns no table.
C10_LoadsIffContinuous ==
    Returned =>
        IF Starts[1] = 0 /\ Cardinality(ConsecutiveDiffs) <= 2 /\ 0 \in ConsecutiveDiffs
        THEN result[1].ok
        ELSE ~result[1].ok /\ result[1].err = LoadError

\* C10 as the code has it: loading a CTM succeeds exactly when the first
\* seg_start is 0 and the differences between the seg_start of consecutive
\* rows take at most one value other than 0 (0 need not occur among them);
\* otherwise it fails with its error and returns no table.
C10_LoadsIffOneSegmentLength ==
    Returned =>
        IF Starts[1] = 0 /\ Cardinality(ConsecutiveDiffs \ {0}) <= 1
        THEN result[1].ok /\ Len(result[1].rows) = Len(args)
        ELSE /\ ~result[1].ok
             /\ result[1].err = LoadError
             /\ "rows" \notin DOMAIN result[1]

\* A CTM of one row per segment, loaded although no two consecutive rows
\* start at the same time.
C10_Witness ==
    /\ Returned
    /\ Len(Starts) >= 3
    /\ Starts[1] = 0
    /\ 0 \notin ConsecutiveDiffs
    /\ result[1].ok


----------------------------------------------------------------------------
(* Segment markers and segment rows                                        *)

\* The segment markers in the segment_info column of the CTM of session k.
Markers(k) ==
    UNION {{<<i, m>> : m \in 1..Len(inputs[k].ctm[i].segment_info)} :
              i \in 1..Len(inputs[k].ctm)}

CountMismatch(k) == Cardinality(Markers(k)) /= Len(inputs[k].segments)

\* C11: if the number of segment-info records extracted from the CTM differs
\* from the number of rows of the segments table, the session is aborted: it
\* ends in the except clause, none of its four output files is written and it
\* gets no statistics row.
C11_CountMismatchAborts ==
    \A k \in 1..pos :
        CountMismatch(k) => FailedSession(k) /\ FilesAbsent(k) /\ ~HasStats(k)

\* A session whose CTM was loaded and whose segments file has fewer rows than
\* the CTM has markers: it failed on the length of the label column.
C11_Witness ==
    /\ pos = 1
    /\ CountMismatch(1)
    /\ locals.ctm_loaded
    /\ \E i \in 1..Len(log) :
          /\ log[i].level = "exception"
          /\ log[i].err = "Length of values does not match length of index"
    /\ FilesAbsent(1) /\ ~HasStats(1)


----------------------------------------------------------------------------
(* The order of the matches                                                *)

\* C12 as the specification states it: over the statements of one transcript,
\* the start indices returned by successive successful matches of
\* find_statement are non-decreasing in the CTM.
C12_StartsNonDecreasing ==
    \A i, j \in 1..Len(mpc.starts) : i < j => mpc.starts[i] <= mpc.starts[j]


----------------------------------------------------------------------------
(* Swedish statements                                                      *)

\* The languages that contain "sv".
SwedishLangs == {l \in Langs : Contains(Chars(l), SV)}

\* The rows with every edit replaced by cor: on them every matching block
\* has a cor ratio of 1.
AllCor(rows) == [k \in 1..Len(rows) |-> [rows[k] EXCEPT !.edit = "cor"]]

\* C13: for a piece whose statement's language contains "sv", find_statement
\* accepts the first matching block of at least min(words, 5) words whatever
\* the edits of its rows are (it returns what it returns for a Finnish
\* statement over the same words with every edit cor), and assign_speaker
\* writes the statement's labels over exactly the range find_statement
\* returned, without tightening it and without failing.
C13_SwedishBypass ==
    [][(/\ mpc.state = "loop"
        /\ mpc.queue /= <<>>
        /\ Head(mpc.queue)[2].language \in SwedishLangs)
       => \A found \in {find_statement(df.rows, Head(mpc.queue)[1],
                                       Head(mpc.queue)[2].language,
                                       MATCH_LIMIT, WINDOW_SIZE, WINDOW_STEP)},
             clean \in {find_statement(AllCor(df.rows), Head(mpc.queue)[1], "fi",
                                       MATCH_LIMIT, WINDOW_SIZE, WINDOW_STEP)} :
             /\ found = clean
             /\ found.ok =>
                  /\ df'.rows = write_labels(df.rows, found.start, found.end,
                                             Head(mpc.queue)[2])
                  /\ df'.failed = df.failed
                  /\ errors' = errors]_vars

\* A Swedish statement was labeled from a first row whose edit is not cor: a
\* Finnish statement over the same rows is rejected (cor ratio 1/2) and its
\* tightened range would start one row later.
C13_Witness ==
    /\ mpc.tried >= 1
    /\ df.failed = 0
    /\ \E k \in 1..Len(df.rows) :
          /\ df.rows[k].edit = "sub"
          /\ df.rows[k].lang \in SwedishLangs
          /\ df.rows[k].mpid > 0
          /\ (k = 1 \/ df.rows[k - 1].lang \notin SwedishLangs)


----------------------------------------------------------------------------
(* Boundary tightening                                                     *)

\* The indices of the cor rows among the rows start_idx..end_idx-1 that
\* adjust_indices looks at.
CorRows == {i \in args.start_idx..(args.end_idx - 1) : args.rows[i + 1].edit = "cor"}

FirstCor == CHOOSE i \in CorRows : \A j \in CorRows : i <= j

LastCor == CHOOSE i \in CorRows : \A j \in CorRows : j <= i

\* C14 as the specification states it: on a range with at least one cor row
\* adjust_indices returns the index of the first cor row as the start and
\* one past the index of the last cor row as the end.
C14_TightenedToCorRows ==
    (Returned /\ CorRows /= {}) =>
        /\ result[1].ok
        /\ result[1].start = FirstCor
        /\ result[1].end = LastCor + 1

\* What the code returns: the end is left where it was when the last row of
\* the range is cor, and is the index of the last cor row itself when rows
\* that are not cor follow it.
C14_EndAsTheCodeReturnsIt ==
    (Returned /\ CorRows /= {}) =>
        /\ result[1].ok
        /\ result[1].start = FirstCor
        /\ result[1].end = IF LastCor = args.end_idx - 1 THEN args.end_idx ELSE LastCor


\* C15 as the specification states it: boundary tightening never hands back
\* a range with start = end; such a range is the zero-length error, so that
\* nothing is labeled for the statement.
C15_TightenedEmptyRangeFails ==
    (Returned /\ result[1].ok) => result[1].start /= result[1].end

\* The zero-length error is raised for the ranges that come in with
\* start_idx = end_idx, and for no other range.
C15_ErrorIffEmptyRangeComesIn ==
    Returned =>
        ((~result[1].ok /\ result[1].err = "Found segment is of length 0.")
            <=> args.start_idx = args.end_idx)


----------------------------------------------------------------------------
(* The pieces of a statement                                               *)

\* The main statement is about to be taken by the loop.
TakesStatement ==
    /\ mpc.state = "loop"
    /\ mpc.queue = <<>>
    /\ mpc.next <= Len(transcript)

\* The raw texts of the pieces of a main statement, in order.
RawPieces(ms) ==
    IF ms.embedded_statement.text /= <<>>
    THEN <<partition(ms.text)[1], ms.embedded_statement.text, partition(ms.text)[3]>>
    ELSE <<ms.text>>

\* The normalized texts of at least two tokens among the pieces.
LongNormalized(ms) ==
    LET long(txt) == Len(txt) >= 2
    IN  SelectSeq([k \in 1..Len(RawPieces(ms)) |-> apply(RawPieces(ms)[k])], long)

\* C16 as the specification states it: of the pieces of a statement exactly
\* those whose normalized text has at least two tokens are counted in the
\* statements counter and queued for the matcher; a piece whose normalized
\* text is shorter is never tried, so it can neither fail nor leave a message.
C16_ShortNormalizedPieceSkipped ==
    [][TakesStatement =>
          /\ [k \in 1..Len(mpc'.queue) |-> mpc'.queue[k][1]]
               = LongNormalized(transcript[mpc.next])
          /\ df'.statements = df.statements + Len(LongNormalized(transcript[mpc.next]))]_vars

\* What the code does: the pieces are chosen by the number of tokens of the
\* raw text, and normalized afterwards.
C16_ShortRawPieceSkipped ==
    [][TakesStatement =>
          LET raw  == RawPieces(transcript[mpc.next])
              long == {k \in 1..Len(raw) : Len(raw[k]) >= 2}
          IN  /\ Len(mpc'.queue) = Cardinality(long)
              /\ \A k \in 1..Len(mpc'.queue) :
                    \E j \in long : mpc'.queue[k][1] = apply(raw[j])
              /\ df'.statements = df.statements + Cardinality(long)]_vars

\* The statement a piece of the main statement ms belongs to: the embedded
\* statement for the chairman's words, ms itself for the words around them.
Owner(ms, txt) ==
    IF ms.embedded_statement.text /= <<>> /\ apply(ms.embedded_statement.text) = txt
    THEN ms.embedded_statement
    ELSE ms

\* C20 as the specification states it: every row that the matcher labels for
\* a piece of a statement gets the name, the MP id and the language of the
\* statement the piece belongs to, also when another piece of the same main
\* statement was skipped.
C20_PieceLabeledWithOwnSpeaker ==
    [][(mpc.state = "loop" /\ mpc.queue /= <<>>) =>
          \A own \in {Owner(transcript[mpc.next - 1], Head(mpc.queue)[1])} :
             \A k \in 1..Len(df.rows) :
                df'.rows[k] /= df.rows[k] =>
                   /\ df'.rows[k].speaker = <<own.firstname, own.lastname>>
                   /\ df'.rows[k].mpid = own.mp_id
                   /\ df'.rows[k].lang = own.language]_vars


----------------------------------------------------------------------------
(* Utterance ids as text                                                   *)

\* In this part an id is the text that stands in a file, a sequence of
\* characters, and a time is a whole number of milliseconds: start * 100 is
\* start / 10 here, and float(begin) / 100.0 is ten times the number read.

Digit == <<"0", "1", "2", "3", "4", "5", "6", "7", "8", "9">>

IsNumber(chars) == chars /= <<>> /\ \A k \in 1..Len(chars) : chars[k] \in Range(Digit)

RECURSIVE Value(_)
\* int(chars) and float(chars) on a text of decimal digits.
Value(chars) ==
    IF chars = <<>> THEN 0
    ELSE 10 * Value(SubSeq(chars, 1, Len(chars) - 1))
         + (CHOOSE d \in 0..9 : Digit[d + 1] = chars[Len(chars)])

RECURSIVE str(_)
\* The decimal digits of n >= 0.
str(n) == IF n < 10 THEN <<Digit[n + 1]>> ELSE str(n \div 10) \o <<Digit[(n % 10) + 1]>>

\* f"{n:0width}" for n >= 0: zeros to the left up to the width, never cut.
format(n, width) ==
    LET padded(digits) == [k \in 1..(width - Len(digits)) |-> "0"] \o digits
    IN  padded(str(n))

\* The parts of s between the positions in cut, in order.
SplitAt(s, cut) ==
    LET at(k) == CHOOSE i \in cut : Cardinality({j \in cut : j < i}) = k - 1
        n     == Cardinality(cut)
    IN  [k \in 1..(n + 1) |->
            SubSeq(s, IF k = 1 THEN 1 ELSE at(k - 1) + 1,
                      IF k = n + 1 THEN Len(s) ELSE at(k) - 1)]

\* s.split(sep) for a separator of one character.
split(s, sep) == SplitAt(s, {i \in 1..Len(s) : s[i] = sep})

\* s.rsplit(sep, maxsplit): split at the last maxsplit separators.
rsplit(s, sep, maxsplit) ==
    LET seps == {i \in 1..Len(s) : s[i] = sep}
    IN  SplitAt(s, {i \in seps : Cardinality({j \in seps : j > i}) < maxsplit})

\* s.replace(old, "") for one character.
replace(s, old) ==
    LET kept(c) == c /= old
    IN  SelectSeq(s, kept)

\* The return statement of split_segment_id on the three texts.
split_segment_id_return(begin, end, number) ==
    IF ~IsNumber(begin) \/ ~IsNumber(end)
    THEN Raise("ValueError", "could not convert string to float")
    ELSE IF ~IsNumber(number)
    THEN Raise("ValueError", "invalid literal for int() with base 10")
    ELSE [ok |-> TRUE, begin |-> 10 * Value(begin), end |-> 10 * Value(end),
          number |-> Value(number)]

\* split_segment_id if it took every id for the form with a trailing number.
split_segment_id_text_hyphens_only(segment_id) ==
    LET hyphened(parts) ==
            IF Len(parts) /= 4 THEN Raise("ValueError", "not enough values to unpack")
            ELSE split_segment_id_return(parts[2], parts[3], parts[4])
    IN  hyphened(rsplit(segment_id, "-", 3))

\* split_segment_id(segment_id) on the text of the id.
split_segment_id_text(segment_id) ==
    LET numbered(begin, ends) ==
            IF Len(ends) /= 2 THEN Raise("ValueError", "too many values to unpack")
            ELSE split_segment_id_return(begin, ends[1], replace(ends[2], "]"))
        bracketed(parts) ==
            IF Len(parts) /= 3 THEN Raise("ValueError", "not enough values to unpack")
            ELSE numbered(parts[2], split(parts[3], "["))
        hyphened(parts) ==
            IF Len(parts) /= 4 THEN Raise("ValueError", "not enough values to unpack")
            ELSE split_segment_id_return(parts[2], parts[3], parts[4])
    IN  IF "[" \in Range(segment_id)
        THEN bracketed(rsplit(segment_id, "-", 2))
        ELSE hyphened(rsplit(segment_id, "-", 3))

\* form_input_tuple: the session id is the two groups of digits that the
\* pattern session-(\d+)-(\d+) finds in the path, joined by a hyphen.
form_input_tuple(num, year) == num \o <<"-">> \o year

\* int(t * 100) for a time t of ms milliseconds.  The product is formed in
\* binary floating point: for a time of whole centiseconds it is the whole
\* number or a value just below it (0.29 * 100 is 28.999999999999996), and
\* below says which; int() cuts it.
centiseconds(ms, below) ==
    IF below /\ ms > 0 /\ ms % 10 = 0 THEN ms \div 10 - 1 ELSE ms \div 10

\* form_new_utterance_id if it rounded the times to the nearest centisecond.
form_new_utterance_id_text_rounding(row, session) ==
    IF row.mpid > 0
    THEN format(row.mpid, 5) \o <<"-">> \o session \o <<"-">>
         \o format((row.start + 5) \div 10, 8) \o <<"-">> \o format((row.end + 5) \div 10, 8)
    ELSE <<>>

\* form_new_utterance_id(row, session) as the text it returns.
form_new_utterance_id_text(row, session) ==
    IF row.mpid > 0
    THEN format(row.mpid, 5) \o <<"-">> \o session \o <<"-">>
         \o format(centiseconds(row.start, row.start_below), 8) \o <<"-">>
         \o format(centiseconds(row.end, row.end_below), 8)
    ELSE <<>>

\* The word ids of the input ids are 0..MaxWordId.
MaxWordId == 11

\* Times in milliseconds: whole centiseconds and times between them.
TimesMs == {0, 90, 1230, 1239, 900000}

\* The session numbers and years that stand in the names of the files.
SessionNums == {<<"0", "0", "3">>, <<"1", "4", "4">>, <<"7">>}

SessionYears == {<<"2", "0", "1", "6">>}

\* The MP ids of segment rows: none, several speakers, or an MP.
RowMpids == {-1, 0, 1234} \cup 1..MaxMpid

\* A segment row and the groups of the path of its session.
UttidArgs ==
    {[mpid |-> m, start |-> b, start_below |-> bb, end |-> e, end_below |-> eb,
      num |-> n, year |-> y] :
        m \in RowMpids, b \in TimesMs, bb \in BOOLEAN, e \in TimesMs, eb \in BOOLEAN,
        n \in SessionNums, y \in SessionYears}

call_form_new_utterance_id ==
    /\ pc = "call"
    /\ result' = <<form_new_utterance_id_text(args, form_input_tuple(args.num, args.year))>>
    /\ pc' = "formed"
    /\ UNCHANGED <<inputs, pos, files, stats, log, errors, locals, df, transcript, mpc, args>>

\* The new id is split again by the function that splits ids.
call_split_new_uttid ==
    /\ pc = "formed"
    /\ result[1] /= <<>>
    /\ result' = <<result[1], split_segment_id_text(result[1])>>
    /\ pc' = "returned"
    /\ UNCHANGED <<inputs, pos, files, stats, log, errors, locals, df, transcript, mpc, args>>

InitUttid == InitCall(UttidArgs)

SpecUttid == InitUttid /\ [][call_form_new_utterance_id \/ call_split_new_uttid]_vars

\* An input id in one of its two forms: session-NNN-YYYY-S-E[W] and
\* session-NNN-YYYY-S-E-W, S and E in centiseconds on eight digits.
SegmentIdText(form, num, year, S, E, W) ==
    <<"s", "e", "s", "s", "i", "o", "n", "-">> \o num \o <<"-">> \o year \o <<"-">>
    \o format(S, 8) \o <<"-">> \o format(E, 8)
    \o (IF form = "bracket" THEN <<"[">> \o str(W) \o <<"]">> ELSE <<"-">> \o str(W))

SplitArgs ==
    {[form |-> f, num |-> n, year |-> y, S |-> b \div 10, E |-> e \div 10, W |-> w] :
        f \in {"bracket", "hyphen"}, n \in SessionNums, y \in SessionYears,
        b \in TimesMs, e \in TimesMs, w \in 0..MaxWordId}

call_split_segment_id ==
    /\ pc = "call"
    /\ result' = <<split_segment_id_text(
                       SegmentIdText(args.form, args.num, args.year, args.S, args.E, args.W))>>
    /\ pc' = "returned"
    /\ UNCHANGED <<inputs, pos, files, stats, log, errors, locals, df, transcript, mpc, args>>

InitSplit == InitCall(SplitArgs)

SpecSplit == InitSplit /\ [][call_split_segment_id]_vars

----------------------------------------------------------------------------
(* Properties of the utterance ids                                         *)

\* The new id of the row was formed.
Formed == pc \in {"formed", "returned"}

\* The fields of the new id between its hyphens.
Fields == split(result[1], "-")

\* C17 as the specification states it: the new id of a segment with
\* mpid > 0 is the mpid on five digits, "-session-", the session number on
\* three digits, "-", the year, "-", and the start and the end in centiseconds,
\* rounded, on eight digits each, with "-" between them.
C17_UttidFormat ==
    (Formed /\ args.mpid > 0) =>
        result[1] = format(args.mpid, 5) \o <<"-", "s", "e", "s", "s", "i", "o", "n", "-">>
                    \o format(Value(args.num), 3) \o <<"-">> \o args.year \o <<"-">>
                    \o format((args.start + 5) \div 10, 8) \o <<"-">>
                    \o format((args.end + 5) \div 10, 8)

\* C17, amended: the new id of a segment with mpid > 0 has five fields
\* between hyphens and no word "session": the mpid on at least five digits,
\* the session number and the year as they stand in the name of the CTM
\* file, and the start and the end in centiseconds on at least eight digits,
\* each the product time * 100 cut to a whole number: never above the time
\* and at most one centisecond below it.
C17_UttidFormatAsEmitted ==
    (Formed /\ args.mpid > 0) =>
        /\ Len(Fields) = 5
        /\ \A k \in {1, 4, 5} : IsNumber(Fields[k])
        /\ Len(Fields[1]) = Max(5, Len(str(args.mpid)))
        /\ Value(Fields[1]) = args.mpid
        /\ Fields[2] = args.num
        /\ Fields[3] = args.year
        /\ Len(Fields[4]) = 8 /\ Len(Fields[5]) = 8
        /\ 10 * Value(Fields[4]) <= args.start /\ args.start <= 10 * Value(Fields[4]) + 10
        /\ 10 * Value(Fields[5]) <= args.end /\ args.end <= 10 * Value(Fields[5]) + 10

\* The id of an MP was formed from a start that is not a whole number of
\* centiseconds and from a session number of one digit.
C17_Witness ==
    /\ Formed
    /\ args.mpid > 0
    /\ args.start % 10 >= 5
    /\ Len(args.num) = 1
    /\ result[1] /= <<>>

\* C18 as the specification states it: splitting the new id gives back the
\* start and the end it was formed from, up to 10 ms.
C18_RoundTrip ==
    (pc = "returned") =>
        /\ result[2].ok
        /\ result[2].begin <= args.start /\ args.start <= result[2].begin + 10
        /\ result[2].end <= args.end /\ args.end <= result[2].end + 10

\* What split_segment_id makes of a new id: the year as the begin, the start
\* as the end and the end as the number.
C18_SplitTakesLastThreeFields ==
    (pc = "returned") =>
        /\ result[2].ok
        /\ result[2].begin = 10 * Value(args.year)
        /\ result[2].end = 10 * centiseconds(args.start, args.start_below)
        /\ result[2].number = centiseconds(args.end, args.end_below)

\* C19: for an input id session-NNN-YYYY-S-E[W] or session-NNN-YYYY-S-E-W
\* split_segment_id returns S / 100 and E / 100 seconds and the number W, so
\* that the two forms of an id give the same result.
C19_SplitSegmentId ==
    (Returned /\ args.form \in {"bracket", "hyphen"}) =>
        /\ result[1] = [ok |-> TRUE, begin |-> 10 * args.S, end |-> 10 * args.E,
                        number |-> args.W]
        /\ \A f \in {"bracket", "hyphen"} :
              split_segment_id_text(SegmentIdText(f, args.num, args.year,
                                                  args.S, args.E, args.W)) = result[1]

\* An id in the bracket form with a start, an end and a number of several
\* digits was split.
C19_Witness ==
    /\ Returned
    /\ args.form = "bracket"
    /\ args.S > 100 /\ args.E > args.S /\ args.W >= 10
    /\ result[1].ok
    /\ result[1].number = args.W


----------------------------------------------------------------------------
(* find_statement on bounded arguments                                     *)

\* The words of a statement text handed to find_statement.
MaxText == 2

\* The rows of a CTM handed to find_statement: a reference word aligned
\* rightly or wrongly, or an inserted word without a reference word.
CtmRows ==
    {[LabeledRow(0, "", e) EXCEPT !.transcript = w] : w \in {"a", "b"}, e \in {"cor", "sub"}}
    \cup {[LabeledRow(0, "", "ins") EXCEPT !.transcript = EPS]}

\* The window parameters: the defaults, and windows as short as the CTMs.
WindowParams ==
    {[match_limit |-> MATCH_LIMIT, size |-> WINDOW_SIZE, step |-> WINDOW_STEP],
     [match_limit |-> MATCH_LIMIT, size |-> 2, step |-> 1]}

FindArgs ==
    {[rows |-> r, text |-> t, lang |-> l, params |-> p] :
        r \in SeqsOf(CtmRows, 0, MaxRows), t \in SeqsOf({"a", "b"}, 0, MaxText),
        l \in {"fi", "sv"}, p \in WindowParams}

call_find_statement ==
    /\ pc = "call"
    /\ result' = <<find_statement(args.rows, args.text, args.lang, args.params.match_limit,
                                  args.params.size, args.params.step)>>
    /\ pc' = "returned"
    /\ UNCHANGED <<inputs, pos, files, stats, log, errors, locals, df, transcript, mpc, args>>

InitFind == InitCall(FindArgs)

SpecFind == InitFind /\ [][call_find_statement]_vars

\* The indices of the rows that are not masked, in order, and the row at
\* masked position p (from 0).
Unmasked == masked_index(args.rows, Len(args.rows))

MaskedRow(p) == args.rows[Unmasked[p + 1] + 1]

\* The masked position of the row with index idx.
MaskedPos(idx) == (CHOOSE p \in 1..Len(Unmasked) : Unmasked[p] = idx) - 1

WordsMatched == Min(Len(args.text), args.params.match_limit)

\* m unmasked rows from masked position s on read like m successive words
\* among the first WordsMatched words of the text.
BlockAt(s, m) ==
    /\ s + m <= Len(Unmasked)
    /\ \E j \in 0..(WordsMatched - m) :
          \A k \in 0..(m - 1) : MaskedRow(s + k).transcript = args.text[j + k + 1]

CorsIn(s, m) == Cardinality({k \in 0..(m - 1) : MaskedRow(s + k).edit = "cor"})

\* C21: for a language without "sv", the start find_statement returns is the
\* first row of a block of m >= min(words_matched, 5) unmasked rows that
\* match the text and of which strictly more than half are cor; a block of
\* which half or fewer are cor gives no start.
C21_StartAtBlockMostlyCor ==
    (Returned /\ args.lang = "fi" /\ result[1].ok) =>
        /\ result[1].start \in Range(Unmasked)
        /\ \E m \in Max(1, Min(WordsMatched, MIN_BLOCK))..Len(Unmasked) :
              /\ BlockAt(MaskedPos(result[1].start), m)
              /\ 2 * CorsIn(MaskedPos(result[1].start), m) > m

\* A Finnish statement was found behind a block that matches its words and
\* of which half or fewer of the rows are cor.
C21_Witness ==
    /\ Returned
    /\ args.lang = "fi"
    /\ args.text /= <<>>
    /\ result[1].ok
    /\ MaskedPos(result[1].start) >= 1
    /\ \E s \in 0..(MaskedPos(result[1].start) - 1) :
          /\ BlockAt(s, WordsMatched)
          /\ 2 * CorsIn(s, WordsMatched) <= WordsMatched


\* A block at masked position s that find_statement accepts: long enough,
\* and mostly cor unless the language is Swedish.
AcceptableBlock(s) ==
    \E m \in Max(1, Min(WordsMatched, MIN_BLOCK))..Len(Unmasked) :
       /\ BlockAt(s, m)
       /\ (Contains(Chars(args.lang), SV) \/ 2 * CorsIn(s, m) > m)

\* C22 as the specification states it: find_statement ends with "Alignment
\* not found." only when the unmasked rows hold no acceptable block; a
\* rejected block does not hide an acceptable one.
C22_NotFoundOnlyWithoutAcceptableBlock ==
    (Returned /\ ~result[1].ok /\ result[1].err = "Alignment not found.") =>
        \A s \in 0..(Len(Unmasked) - 1) : ~AcceptableBlock(s)


\* C30: a range that find_statement returns has start < end, and both are
\* indices of rows that are not masked; so the range is never of length 0
\* when it is handed to adjust_indices.
C30_RangeNotEmptyAndUnmasked ==
    (Returned /\ result[1].ok) =>
        /\ result[1].start < result[1].end
        /\ result[1].start \in Range(Unmasked)
        /\ result[1].end \in Range(Unmasked)
        /\ adjust_indices(args.rows, result[1].start, result[1].end).ok

\* A range was returned across a masked row.
C30_Witness ==
    /\ Returned
    /\ result[1].ok
    /\ \E i \in (result[1].start + 1)..(result[1].end - 1) : args.rows[i + 1].transcript = EPS


----------------------------------------------------------------------------
(* find_end_index on bounded arguments                                     *)

\* The unmasked rows from the start of a statement on: their words, and
\* their indices in the CTM, which grow by one or, past masked rows, by more.
EndArgs ==
    {[tokens |-> t, labels |-> [k \in 1..Len(t) |-> first + stride * (k - 1)],
      text |-> x, added_range |-> r] :
        t \in SeqsOf({"a", "b"}, 0, MaxRows), first \in {0, 1}, stride \in {1, 2},
        x \in SeqsOf({"a", "b"}, 0, MaxText), r \in {0, ADDED_RANGE}}

call_find_end_index ==
    /\ pc = "call"
    /\ result' = <<find_end_index(args.tokens, args.labels, args.text, args.added_range)>>
    /\ pc' = "returned"
    /\ UNCHANGED <<inputs, pos, files, stats, log, errors, locals, df, transcript, mpc, args>>

InitEnd == InitCall(EndArgs)

SpecEnd == InitEnd /\ [][call_find_end_index]_vars

\* min(len(text) + added_range, len(masked) - 1) and the rows searched.
SearchEnd == Min(Len(args.text) + args.added_range, Len(args.tokens) - 1)

Searched == Slice(args.tokens, 0, Max(SearchEnd, 0))

EndOps == get_opcodes(Searched, Len(Searched), args.text)

EndBlocks == get_matching_blocks(Searched, Len(Searched), args.text)

LongBlocks == {k \in 1..Len(EndBlocks) : EndBlocks[k].size > 1}

LastLongBlock == EndBlocks[CHOOSE k \in LongBlocks : \A j \in LongBlocks : j <= k]

\* The position among the unmasked rows of the end that was returned.
EndPosition == (CHOOSE k \in 1..Len(args.labels) : args.labels[k] = result[1].end) - 1

\* The error and the end that the claims C23 name.
EndAsTheDiffGivesIt ==
    /\ (EndOps /= <<>> /\ EndOps[Len(EndOps)][1] /= "equal" /\ LongBlocks = {})
          => (~result[1].ok /\ result[1].err = "Statement end index not found.")
    /\ result[1].ok =>
          /\ result[1].end \in Range(args.labels)
          /\ EndPosition = IF EndOps[Len(EndOps)][1] = "equal"
                           THEN EndOps[Len(EndOps)][3]
                           ELSE LastLongBlock.a + LastLongBlock.size

----------------------------------------------------------------------------
(* The rows assign_speaker changes                                         *)

\* The range accepted for the piece at the head of the queue: what
\* find_statement returns, tightened unless the language is Swedish.
AcceptedRange ==
    LET tightened(found) ==
            IF found.ok /\ Head(mpc.queue)[2].language \notin SwedishLangs
            THEN adjust_indices(df.rows, found.start, found.end)
            ELSE found
    IN  tightened(find_statement(df.rows, Head(mpc.queue)[1], Head(mpc.queue)[2].language,
                                 MATCH_LIMIT, WINDOW_SIZE, WINDOW_STEP))

\* The labels of the row are those of the statement.
LabeledAs(row, statement) ==
    /\ row.speaker = <<statement.firstname, statement.lastname>>
    /\ row.mpid = statement.mp_id
    /\ row.lang = statement.language

\* The row differs from the other in its labels at most.
SameBut(row, other) ==
    row = [other EXCEPT !.speaker = row.speaker, !.mpid = row.mpid, !.lang = row.lang]

Unlabeled(row) == row.speaker = <<"unknown">> /\ row.mpid = 0 /\ row.lang = ""

\* C24: when a piece is found, every row of the accepted range [s, e], the
\* rows without a reference word included, gets the name, the MP id and the
\* language of the statement, and every other row stays as it is; when it
\* is not found no row changes.  A row is unlabeled ("unknown", 0, "")
\* until a piece is found over it.
C24_LabelsOnlyInAcceptedRange ==
    /\ [][(mpc.state = "loop" /\ mpc.queue /= <<>>) =>
            \A r \in {AcceptedRange} :
               \A k \in 1..Len(df.rows) :
                  IF r.ok /\ r.start <= k - 1 /\ k - 1 <= r.end
                  THEN /\ LabeledAs(df'.rows[k], Head(mpc.queue)[2])
                       /\ SameBut(df'.rows[k], df.rows[k])
                  ELSE df'.rows[k] = df.rows[k]]_vars
    /\ [](mpc.tried = 0 => \A k \in 1..Len(df.rows) : Unlabeled(df.rows[k]))
    /\ [](\A k \in 1..Len(df.rows) :
             \/ Unlabeled(df.rows[k])
             \/ \E i \in 1..(mpc.next - 1) :
                   \/ LabeledAs(df.rows[k], transcript[i])
                   \/ LabeledAs(df.rows[k], transcript[i].embedded_statement))

\* A row without a reference word was labeled inside the range of a
\* statement, a later piece failed, and a row is still unlabeled.
C24_Witness ==
    /\ df.failed >= 1
    /\ \E k \in 1..Len(df.rows) : df.rows[k].transcript = EPS /\ df.rows[k].mpid > 0
    /\ \E k \in 1..Len(df.rows) : Unlabeled(df.rows[k])

----------------------------------------------------------------------------
(* Segments without a word                                                 *)

\* C25: for a segment whose slice has no row left after the sil and fix
\* rows are filtered out, get_segment_speaker returns -1, the last rule of
\* the speaker policy, so that the segment is dropped and the labeling of
\* the session goes on.
C25_EmptySliceIsMinusOne ==
    (Returned /\ SegmentRows = {}) => result[1].ok /\ result[1].mpid = -1

----------------------------------------------------------------------------
(* Missing segments                                                        *)

\* The CTM of args has its rows in the order of the audio.
InAudioOrder == \A k \in 1..(Len(Starts) - 1) : Starts[k] <= Starts[k + 1]

\* The length of the segments, as the segment ids of the CTM of args give it.
SegmentLengths == {args[k].session.end - args[k].session.begin : k \in 1..Len(args)}

\* The times at which a segment of the audio starts that has no row in the
\* CTM of args, for an audio split into segments of the length seglen.
MissingBetween(seglen) ==
    {t \in 0..Starts[Len(Starts)] : t % seglen = 0 /\ t \notin Range(Starts)}

\* C26: when the audio was split into segments of one length and the CTM
\* has rows for the first and for the last segment but none for a segment
\* between them, loading fails with "There is a missing segment.".
C26_EveryMissingSegmentDetected ==
    (/\ Returned
     /\ InAudioOrder
     /\ Starts[1] = 0
     /\ \E seglen \in SegmentLengths :
           SegmentLengths = {seglen} /\ MissingBetween(seglen) /= {})
    => ~result[1].ok /\ result[1].err = "There is a missing segment."

----------------------------------------------------------------------------
(* The windows of sliding_window                                           *)

\* The iterables have up to MaxIterable elements.
MaxIterable == 5

\* size goes from -1 and step from 0 up to MaxWindow.
MaxWindow == 3

\* sliding_window on the first n letters with a size and a step, those
\* the function refuses included.
WindowArgs ==
    {[iterable |-> SubSeq(Alphabet, 1, n), size |-> size, step |-> step] :
        n \in 0..MaxIterable, size \in (-1)..MaxWindow, step \in 0..MaxWindow}

call_sliding_window ==
    /\ pc = "call"
    /\ result' = <<sliding_window(args.iterable, args.size, args.step)>>
    /\ pc' = "returned"
    /\ UNCHANGED <<inputs, pos, files, stats, log, errors, locals, df, transcript, mpc, args>>

InitWindow == InitCall(WindowArgs)

SpecWindow == InitWindow /\ [][call_sliding_window]_vars

\* The offsets k * step below the length of the iterable of args, as the
\* numbers k.
Offsets == {k \in 0..Len(args.iterable) : k * args.step < Len(args.iterable)}

\* C27: sliding_window yields one window for every offset k * step below
\* the length of the iterable, k = 0, 1, 2, ...; window k has exactly size
\* items: iterable[k * step : k * step + size], padded at its end with the
\* fill value.
C27_OneWindowPerOffset ==
    (Returned /\ args.size >= 1 /\ args.step >= 1) =>
        /\ result[1].ok
        /\ Len(result[1].windows) = Cardinality(Offsets)
        /\ \A k \in Offsets :
              k + 1 <= Len(result[1].windows) =>
                 /\ result[1].windows[k + 1].items
                      = Slice(args.iterable, k * args.step, k * args.step + args.size)
                 /\ Len(result[1].windows[k + 1].items) + result[1].windows[k + 1].pad
                      = args.size

----------------------------------------------------------------------------
(* The loops of find_statement, pass by pass                               *)

\* masked = df[(df.transcript != "<eps>") & (df.transcript != "<UNK>")]: its
\* index and its transcript and edit columns.
find_masked(rows) ==
    LET midx == masked_index(rows, Len(rows))
    IN  [index      |-> midx,
         transcript |-> [k \in 1..Len(midx) |-> rows[midx[k] + 1].transcript],
         edit       |-> [k \in 1..Len(midx) |-> rows[midx[k] + 1].edit]]

\* next((m for m in blocks if m.size >= min_m), Match(0, 0, 0))
first_block_of(blocks, min_m) ==
    LET hits == {k \in 1..Len(blocks) : blocks[k].size >= min_m}
    IN  IF hits = {} THEN Match(0, 0, 0)
        ELSE blocks[CHOOSE k \in hits : \A j \in hits : k <= j]

\* The offset after a rejected block if the words matched were not added.
offset_after_rejection_at_block(start, match, words_matched) == start + match.a

\* The offset after a rejected block: start += match.a, then
\* start += words_matched.
offset_after_rejection(start, match, words_matched) == start + match.a + words_matched

\* The lines before the for loop: the masked rows, words_matched, and the
\* generator of the windows, which raises for a size or a step it refuses.
find_enter ==
    /\ pc = "call"
    /\ \E sw \in {sliding_window(find_masked(args.rows).transcript, args.params.size,
                                 args.params.step)} :
          IF ~sw.ok
          THEN /\ result' = <<sw>>
               /\ pc' = "returned"
               /\ locals' = locals
          ELSE /\ locals' = [masked        |-> find_masked(args.rows),
                             words_matched |-> Min(Len(args.text), args.params.match_limit),
                             windows       |-> sw.windows,
                             i             |-> 0,
                             start         |-> 0]
               /\ pc' = "for"
               /\ result' = result
    /\ UNCHANGED <<inputs, pos, files, stats, log, errors, df, transcript, mpc, args>>

\* The for statement: the next window with start = 0, or the raise after the
\* last window.
find_next_window ==
    /\ pc = "for"
    /\ IF locals.i >= Len(locals.windows)
       THEN /\ result' = <<Raise("ValueError", "Alignment not found.")>>
            /\ pc' = "returned"
            /\ locals' = locals
       ELSE /\ locals' = [locals EXCEPT !.start = 0]
            /\ pc' = "while"
            /\ result' = result
    /\ UNCHANGED <<inputs, pos, files, stats, log, errors, df, transcript, mpc, args>>

\* One pass of the while loop, its test included.
find_pass ==
    /\ pc = "while"
    /\ LET m         == locals.masked
           text_head == Slice(args.text, 0, locals.words_matched)
           min_m     == Min(locals.words_matched, MIN_BLOCK)
           witems    == locals.windows[locals.i + 1].items
           leave(start) ==
               /\ locals' = [locals EXCEPT !.i = @ + 1, !.start = start]
               /\ pc' = "for"
               /\ result' = result
           ending(s, fe) ==
               IF s >= Len(m.index) THEN Raise("IndexError", "index out of bounds")
               ELSE IF ~fe.ok THEN fe
               ELSE [ok |-> TRUE, start |-> m.index[s + 1], end |-> fe.end]
           return(s) ==
               /\ \E tokens \in {Slice(m.transcript, s, Len(m.transcript))},
                     labels \in {Slice(m.index, s, Len(m.index))} :
                     \E fe \in {find_end_index(tokens, labels, args.text, ADDED_RANGE)} :
                        result' = <<ending(s, fe)>>
               /\ pc' = "returned"
               /\ locals' = locals
           body(match) ==
               LET start == locals.start + match.a
                   s     == start + locals.i * args.params.step
                   edits == Slice(m.edit, s, s + match.size)
                   cors  == Cardinality({k \in 1..Len(edits) : edits[k] = "cor"})
               IN  IF match.size <= 0 THEN leave(start)
                   ELSE IF \/ Contains(Chars(args.lang), SV)
                           \/ (cors > 0 /\ 2 * cors > Len(edits))
                   THEN return(s)
                   ELSE /\ locals' = [locals EXCEPT !.start =
                                         offset_after_rejection(locals.start, match,
                                                                locals.words_matched)]
                        /\ pc' = "while"
                        /\ result' = result
       IN  IF ~(locals.start < args.params.step) THEN leave(locals.start)
           ELSE \E a \in {Slice(witems, locals.start, Len(witems))}, b \in {text_head} :
                   \E blocks \in {get_matching_blocks(
                                     a, Max(args.params.size - locals.start, 0), b)} :
                      \E match \in {first_block_of(blocks, min_m)} : body(match)
    /\ UNCHANGED <<inputs, pos, files, stats, log, errors, df, transcript, mpc, args>>

\* The rows of the calls that are followed pass by pass.
StepRows ==
    {[LabeledRow(0, "", e) EXCEPT !.transcript = "a"] : e \in {"cor", "sub"}}
    \cup {[LabeledRow(0, "", "cor") EXCEPT !.transcript = "b"],
          [LabeledRow(0, "", "ins") EXCEPT !.transcript = EPS]}

\* find_statement on a text that repeats one word, the empty text included.
StepArgs ==
    {[rows |-> r, text |-> [k \in 1..n |-> "a"], lang |-> l, params |-> p] :
        r \in SeqsOf(StepRows, 0, MaxRows), n \in 0..MaxText,
        l \in {"fi", "sv"}, p \in WindowParams}

InitFindSteps == InitCall(StepArgs)

NextFindSteps == find_enter \/ find_next_window \/ find_pass

\* The call runs in one thread that nothing holds up: a step that can be
\* taken is taken.
SpecFindSteps == InitFindSteps /\ [][NextFindSteps]_vars /\ WF_vars(NextFindSteps)

\* C28: find_statement terminates for every CTM and every token list, the
\* empty and the one-token lists included: a pass of the while loop that
\* neither returns nor leaves the window moves the offset start on by at
\* least 1, the windows are passed in order, and the call ends, with the
\* range or the alignment error that find_statement gives.
C28_FindStatementTerminates ==
    /\ <>(pc = "returned")
    /\ [][/\ (pc = "while" /\ pc' = "while") =>
                /\ locals'.start >= locals.start + 1
                /\ locals'.i = locals.i
          /\ (pc = "while" /\ pc' = "for") => locals'.i = locals.i + 1
          /\ (pc = "for" /\ pc' = "while") => locals'.i = locals.i]_vars
    /\ [](Returned =>
            /\ result[1] = find_statement(args.rows, args.text, args.lang,
                                          args.params.match_limit, args.params.size,
                                          args.params.step)
            /\ result[1].ok \/ result[1].kind = "ValueError")

\* A call on a one-token text ended after a block in its second window was
\* rejected and the offset had moved on.
C28_Witness ==
    /\ Returned
    /\ Len(args.text) = 1
    /\ locals /= NoLocals
    /\ locals.i >= 1
    /\ locals.start >= 1

----------------------------------------------------------------------------
(* The counters of the matcher                                             *)

\* The pieces of the transcript that are not skipped, as <<statement,
\* piece>>: those whose raw text has two tokens or more.
PiecesNotSkipped ==
    {p \in {<<i, k>> : i \in 1..Len(transcript), k \in 1..3} :
        /\ p[2] <= Len(RawPieces(transcript[p[1]]))
        /\ Len(RawPieces(transcript[p[1]])[p[2]]) >= 2}

AllPieces ==
    {p \in {<<i, k>> : i \in 1..Len(transcript), k \in 1..3} :
        p[2] <= Len(RawPieces(transcript[p[1]]))}

\* C29: while match_ctm_to_transcript runs, 0 <= failed <= statements and
\* the error list has one message for each failure; when it returns,
\* statements is the number of pieces that were not skipped, each of which
\* was tried.
C29_CountersConsistent ==
    /\ 0 <= df.failed
    /\ df.failed <= df.statements
    /\ Len(errors) = df.failed
    /\ mpc.state = "returned" =>
          /\ df.statements = Cardinality(PiecesNotSkipped)
          /\ df.statements = mpc.tried

\* The matcher has returned after a piece was skipped, a piece failed and a
\* piece was found.
C29_Witness ==
    /\ mpc.state = "returned"
    /\ Cardinality(PiecesNotSkipped) < Cardinality(AllPieces)
    /\ df.failed >= 1
    /\ df.failed < df.statements

====
